---------------------------- MODULE Spec2Model ----------------------------
(***************************************************************************)
(* Verification model of the verse extractor                              *)
(*   src/old-extractors/ayat_extractor_main.py  (AyatExtractor)           *)
(*   src/gui/Agent/text_processor_advanced.py   (AdvancedTextProcessor)   *)
(*   src/gui/Agent/font_manager.py              (AdvancedFontManager)     *)
(*                                                                         *)
(* Texts are sequences of characters; a character is named by a string.   *)
(* Scores are exact rationals kept as integers in units of 1/Unit, so     *)
(* 1.0 is Unit and the weight 0.3 of a ratio r/D is 300 * r.              *)
(***************************************************************************)
EXTENDS Integers, Sequences, FiniteSets, TLC

(***************************************************************************)
(* Bounds of the model                                                     *)
(***************************************************************************)
\* longest raw text (reference verse or extracted line)
MaxLen == 2

\* greatest verse number of the corpus
MaxAya == 2

\* pages of the book: process_pages runs over a range of 1..NumPages
NumPages == 2

\* most lines an SVG page yields when the matcher's candidates are drawn freely
MaxFrags == 2

\* most traditional texts and most AI regions handed to _merge_ai_results
MaxTraditional == 2

MaxRegions == 2

VARIABLES
    scRef,      \* _calculate_match_score: ref_text
    scExt,      \* _calculate_match_score: extracted_text
    scAya,      \* _calculate_match_score: aya_number
    scResult    \* the score returned, NotScored before the call

VARIABLES
    cfg,         \* AyatExtractor.config and the arguments of process_pages
    src,         \* per page: what the SVG file and the PDF page hold
    task,        \* per page: the call process_page(page) and its locals
    stats,       \* AyatExtractor.stats
    all_matches, \* process_pages: all_matches
    collected,   \* process_pages: the pages whose call has been consumed
    returned     \* process_pages has returned all_matches

VARIABLES
    mgTraditional, \* _merge_ai_results: traditional_texts
    mgRegions,     \* _merge_ai_results: ai_analysis.text_regions
    mgMerged,      \* the list returned
    mgDone         \* _merge_ai_results has returned

VARIABLES
    aiEnv,  \* what the page files and the region detector of a page do
    ai      \* process_page with the AI analyzer: position and locals

VARIABLES
    ldColumns, \* the columns of the corpus file
    ld         \* the run of main() on that file: position and outcome

VARIABLES
    nmText,   \* normalize_text: text
    nmLevel,  \* normalize_text: level
    nmResult  \* normalize_text: the string returned

VARIABLES
    odRows, \* the rows of the corpus in the order of the file
    od      \* a call of match_ayat_with_texts on that corpus: position and locals

VARIABLES
    lnTexts, \* _process_svg_texts: texts
    ln       \* the call of _process_svg_texts: position and locals

VARIABLES
    stEnv, \* the configuration, the files and the analyses of one page
    st     \* process_page on that page, stage by stage: position and locals

scoreVars == <<scRef, scExt, scAya, scResult>>

pipeVars == <<cfg, src, task, stats, all_matches, collected, returned>>

mergeVars == <<mgTraditional, mgRegions, mgMerged, mgDone>>

aiVars == <<aiEnv, ai>>

loadVars == <<ldColumns, ld>>

normVars == <<nmText, nmLevel, nmResult>>

\* the variables of the calls modelled on their own
orderVars == <<odRows, od>>

lineVars == <<lnTexts, ln>>

stageVars == <<stEnv, st>>

restVars == <<normVars, orderVars, lineVars, stageVars>>

vars == <<scRef, scExt, scAya, scResult,
          cfg, src, task, stats, all_matches, collected, returned,
          mgTraditional, mgRegions, mgMerged, mgDone,
          aiEnv, ai, ldColumns, ld, restVars>>

(***************************************************************************)
(* Characters                                                              *)
(***************************************************************************)
\* U+0628, U+0645: letters no rule rewrites
\* U+0623: alef with hamza, rewritten to U+0627 by 'alef_variants'
\* U+064E: fatha, in DIACRITIC_RANGES and in UTHMANI_RANGES
\* "1" and U+0661: the digit one, Latin and Arabic-Indic
Chars == {"ba", "meem", "alefHamza", "fatha", "d1", "ar1", "sp"}

\* AdvancedTextProcessor.DIACRITIC_RANGES
DiacriticChars == {"fatha"}

\* AdvancedTextProcessor.ARABIC_NUMBERS keys
ArabicDigits == {"ar1"}

\* what \d matches (Python's \d is Unicode-aware on str patterns)
AllDigits == {"d1", "ar1"}

\* \s
SpaceChars == {"sp"}

\* every character a text can hold after normalisation, but whitespace
NonSpaceChars == (Chars \cup {"alef"}) \ SpaceChars

\* AdvancedFontManager.is_uthmani_symbol: the font's characters that lie in
\* UTHMANI_RANGES or are combining marks
is_uthmani_symbol(c) == c \in {"fatha"}

\* AdvancedTextProcessor.all_normalizations, one character
NormalizeChar(c) == IF c = "alefHamza" THEN "alef" ELSE c

\* AdvancedTextProcessor.ARABIC_NUMBERS.get(c, c)
ToLatinDigit(c) == IF c = "ar1" THEN "d1" ELSE c

\* int() of one digit character
DigitValue(c) == IF c \in {"d1", "ar1"} THEN 1 ELSE 0

(***************************************************************************)
(* Sequence helpers                                                        *)
(***************************************************************************)
Max2(a, b) == IF a >= b THEN a ELSE b

Min2(a, b) == IF a <= b THEN a ELSE b

MapSeq(s, F(_)) == [i \in 1..Len(s) |-> F(s[i])]

RemoveChars(s, C) == SelectSeq(s, LAMBDA c : c \notin C)

RECURSIVE DropWhileIn(_, _)
DropWhileIn(s, C) ==
    IF s = <<>> THEN <<>>
    ELSE IF Head(s) \in C THEN DropWhileIn(Tail(s), C) ELSE s

\* re.sub('[C]+', r, s): every maximal run of characters of C becomes r
RECURSIVE ReplaceRuns(_, _, _)
ReplaceRuns(s, C, r) ==
    IF s = <<>> THEN <<>>
    ELSE IF Head(s) \in C
         THEN <<r>> \o ReplaceRuns(DropWhileIn(Tail(s), C), C, r)
         ELSE <<Head(s)>> \o ReplaceRuns(Tail(s), C, r)

RECURSIVE DropTrailing(_, _)
DropTrailing(s, C) ==
    IF s = <<>> THEN <<>>
    ELSE IF s[Len(s)] \in C THEN DropTrailing(SubSeq(s, 1, Len(s) - 1), C)
         ELSE s

\* str.strip()
Strip(s) == DropTrailing(DropWhileIn(s, SpaceChars), SpaceChars)

\* the maximal runs of characters of C in s, as <<first, last>> positions
MaxRuns(s, C) ==
    {r \in (1..Len(s)) \X (1..Len(s)) :
        /\ r[1] <= r[2]
        /\ \A k \in r[1]..r[2] : s[k] \in C
        /\ (r[1] = 1 \/ s[r[1] - 1] \notin C)
        /\ (r[2] = Len(s) \/ s[r[2] + 1] \notin C)}

\* set(s.split())
WordSet(s) == {SubSeq(s, r[1], r[2]) : r \in MaxRuns(s, NonSpaceChars)}

\* set(s.replace(' ', ''))
CharSet(s) == {s[i] : i \in 1..Len(s)} \ {"sp"}

RECURSIVE DecimalValue(_)
DecimalValue(s) ==
    IF s = <<>> THEN 0
    ELSE 10 * DecimalValue(SubSeq(s, 1, Len(s) - 1)) + DigitValue(s[Len(s)])

RECURSIVE GCD(_, _)
GCD(a, b) == IF b = 0 THEN a ELSE GCD(b, a % b)

RECURSIVE LCMUpTo(_)
LCMUpTo(n) == IF n <= 1 THEN 1 ELSE LET l == LCMUpTo(n - 1) IN (l * n) \div GCD(l, n)

\* common denominator of every ratio over a text of at most MaxLen characters
\* and one of at most MaxLen + 1 (a line with a verse number written into it)
D == LCMUpTo(2 * MaxLen + 1)

\* the score 1.0
Unit == 1000 * D

\* n/d in units of 1/D
Ratio(n, d) == (n * D) \div d

(***************************************************************************)
(* AdvancedTextProcessor: normalize_text, clean_text, extract_verse_numbers *)
(***************************************************************************)
\* normalize_text(text, level='basic'); NFKC leaves every character of Chars
normalize_basic(text) ==
    IF text = <<>> THEN <<>>
    ELSE Strip(MapSeq(text, NormalizeChar))

\* clean_text(text, keep_verse_numbers=False)
clean_text(text) ==
    IF text = <<>> THEN <<>>
    ELSE LET t1 == normalize_basic(text)
             t2 == RemoveChars(t1, DiacriticChars)
             t3 == ReplaceRuns(t2, AllDigits, "sp")
             t4 == ReplaceRuns(t3, SpaceChars, "sp")
         IN  Strip(t4)

\* extract_verse_numbers(text): the entries as {english, value} records
extract_verse_numbers(text) ==
    LET arabic == {[english |-> MapSeq(SubSeq(text, r[1], r[2]), ToLatinDigit),
                    value   |-> DecimalValue(SubSeq(text, r[1], r[2]))] :
                        r \in MaxRuns(text, ArabicDigits)}
        latin  == {[english |-> SubSeq(text, r[1], r[2]),
                    value   |-> DecimalValue(SubSeq(text, r[1], r[2]))] :
                        r \in {q \in MaxRuns(text, AllDigits) :
                                 \A v \in arabic : v.english # SubSeq(text, q[1], q[2])}}
    IN  arabic \cup latin

VerseValues(text) == {v.value : v \in extract_verse_numbers(text)}

(***************************************************************************)
(* AdvancedTextProcessor: the similarity measures                          *)
(***************************************************************************)
\* difflib.SequenceMatcher.find_longest_match on a[alo..ahi-1], b[blo..bhi-1]:
\* the longest common block, the one starting earliest in a, then in b
find_longest_match(a, alo, ahi, b, blo, bhi) ==
    LET blocks == {m \in (alo..(ahi - 1)) \X (blo..(bhi - 1)) \X (1..(ahi - alo)) :
                      /\ m[1] + m[3] <= ahi
                      /\ m[2] + m[3] <= bhi
                      /\ \A k \in 0..(m[3] - 1) : a[m[1] + k] = b[m[2] + k]}
        better(m, n) == \/ m[3] > n[3]
                        \/ m[3] = n[3] /\ m[1] < n[1]
                        \/ m[3] = n[3] /\ m[1] = n[1] /\ m[2] <= n[2]
    IN  IF blocks = {} THEN <<alo, blo, 0>>
        ELSE CHOOSE m \in blocks : \A n \in blocks : better(m, n)

\* the matched total of SequenceMatcher.get_matching_blocks
RECURSIVE matching_total(_, _, _, _, _, _)
matching_total(a, alo, ahi, b, blo, bhi) ==
    LET m == find_longest_match(a, alo, ahi, b, blo, bhi)
        i == m[1]
        j == m[2]
        k == m[3]
    IN  IF k = 0 THEN 0
        ELSE k
             + (IF alo < i /\ blo < j
                THEN matching_total(a, alo, i, b, blo, j) ELSE 0)
             + (IF i + k < ahi /\ j + k < bhi
                THEN matching_total(a, i + k, ahi, b, j + k, bhi) ELSE 0)

\* _simple_similarity: SequenceMatcher(None, text1, text2).ratio(), in 1/D
simple_similarity(text1, text2) ==
    LET length == Len(text1) + Len(text2)
    IN  IF length > 0
        THEN Ratio(2 * matching_total(text1, 1, Len(text1) + 1, text2, 1, Len(text2) + 1),
                   length)
        ELSE D

\* Levenshtein.distance
levenshtein_distance(s, t) ==
    LET lev[i \in 0..Len(s), j \in 0..Len(t)] ==
            IF i = 0 THEN j
            ELSE IF j = 0 THEN i
            ELSE Min2(Min2(lev[i - 1, j] + 1, lev[i, j - 1] + 1),
                      lev[i - 1, j - 1] + (IF s[i] = t[j] THEN 0 ELSE 1))
    IN  lev[Len(s), Len(t)]

\* _levenshtein_similarity, in 1/D
levenshtein_similarity(text1, text2) ==
    LET max_len == Max2(Len(text1), Len(text2))
    IN  IF max_len > 0
        THEN D - Ratio(levenshtein_distance(text1, text2), max_len)
        ELSE 0

\* |x & y| / |x | y| when both sets are non-empty, else 0, in 1/D
Jaccard(x, y) ==
    IF x # {} /\ y # {}
    THEN Ratio(Cardinality(x \cap y), Cardinality(x \cup y))
    ELSE 0

UthmaniSymbols(text) == {text[i] : i \in {k \in 1..Len(text) : is_uthmani_symbol(text[k])}}

\* _calculate_symbols_bonus (the processor holds the font manager), in 1/D
calculate_symbols_bonus(text1, text2) ==
    Jaccard(UthmaniSymbols(text1), UthmaniSymbols(text2))

\* _calculate_verse_number_bonus, in 1/D
calculate_verse_number_bonus(text1, text2) ==
    LET values1 == VerseValues(text1)
        values2 == VerseValues(text2)
    IN  IF values1 = {} \/ values2 = {} THEN 0
        ELSE IF values1 = values2 THEN D
        ELSE IF values1 \cap values2 # {} THEN D \div 2
        ELSE 0

\* _advanced_similarity, in 1/(10 D)
advanced_similarity(orig1, orig2, clean1, clean2) ==
    LET word_similarity   == Jaccard(WordSet(clean1), WordSet(clean2))
        char_similarity   == Jaccard(CharSet(clean1), CharSet(clean2))
        len1              == Len(clean1)
        len2              == Len(clean2)
        length_similarity == IF Max2(len1, len2) > 0
                             THEN Ratio(Min2(len1, len2), Max2(len1, len2))
                             ELSE 0
        symbols_bonus     == calculate_symbols_bonus(orig1, orig2)
    IN  word_similarity * 4 + char_similarity * 3
        + length_similarity * 2 + symbols_bonus * 1

\* _combined_similarity, in 1/Unit
combined_similarity(orig1, orig2, clean1, clean2) ==
    LET simple      == simple_similarity(clean1, clean2)
        levenshtein == levenshtein_similarity(clean1, clean2)
        advanced    == advanced_similarity(orig1, orig2, clean1, clean2)
        verse_bonus == calculate_verse_number_bonus(orig1, orig2)
    IN  Min2(simple * 300 + levenshtein * 300 + advanced * 30 + verse_bonus * 100,
             Unit)

\* text_similarity with the cleaning forgotten: the raw texts are compared
text_similarity_uncleaned(text1, text2) ==
    IF text1 = <<>> \/ text2 = <<>> THEN 0
    ELSE combined_similarity(text1, text2, text1, text2)

\* text_similarity(text1, text2, method='combined'), in 1/Unit
text_similarity(text1, text2) ==
    IF text1 = <<>> \/ text2 = <<>> THEN 0
    ELSE combined_similarity(text1, text2, clean_text(text1), clean_text(text2))

(***************************************************************************)
(* AyatExtractor._calculate_match_score                                    *)
(***************************************************************************)
\* _calculate_match_score with the verse-number bonus left out
calculate_match_score_no_verse_bonus(ref_text, ref_clean, extracted_text, aya_number) ==
    LET basic_score   == text_similarity(ref_text, extracted_text)
        ref_symbols   == UthmaniSymbols(ref_text)
        ext_symbols   == UthmaniSymbols(extracted_text)
        symbols_bonus == IF ref_symbols # {} /\ ext_symbols # {}
                         THEN Ratio(Cardinality(ref_symbols \cap ext_symbols),
                                    Cardinality(ref_symbols \cup ext_symbols)) * 100
                         ELSE 0
    IN  Min2(basic_score + symbols_bonus, Unit)

\* _calculate_match_score before its final min(..., 1.0)
calculate_match_score_uncapped(ref_text, ref_clean, extracted_text, aya_number) ==
    LET basic_score   == text_similarity(ref_text, extracted_text)
        verse_bonus   == IF aya_number \in VerseValues(extracted_text)
                         THEN 150 * D ELSE 0
        ref_symbols   == UthmaniSymbols(ref_text)
        ext_symbols   == UthmaniSymbols(extracted_text)
        symbols_bonus == IF ref_symbols # {} /\ ext_symbols # {}
                         THEN Ratio(Cardinality(ref_symbols \cap ext_symbols),
                                    Cardinality(ref_symbols \cup ext_symbols)) * 100
                         ELSE 0
    IN  basic_score + verse_bonus + symbols_bonus

\* in 1/Unit; ref_clean is passed by the caller and never read
calculate_match_score(ref_text, ref_clean, extracted_text, aya_number) ==
    LET basic_score   == text_similarity(ref_text, extracted_text)
        verse_bonus   == IF aya_number \in VerseValues(extracted_text)
                         THEN 150 * D ELSE 0
        ref_symbols   == UthmaniSymbols(ref_text)
        ext_symbols   == UthmaniSymbols(extracted_text)
        symbols_bonus == IF ref_symbols # {} /\ ext_symbols # {}
                         THEN Ratio(Cardinality(ref_symbols \cap ext_symbols),
                                    Cardinality(ref_symbols \cup ext_symbols)) * 100
                         ELSE 0
    IN  Min2(basic_score + verse_bonus + symbols_bonus, Unit)

(***************************************************************************)
(* The variables of a specification that another specification leaves idle *)
(***************************************************************************)
ScoreIdle ==
    /\ scRef = <<>>
    /\ scExt = <<>>
    /\ scAya = 1
    /\ scResult = -1

PipeIdle ==
    /\ cfg = <<>>
    /\ src = <<>>
    /\ task = <<>>
    /\ stats = <<>>
    /\ all_matches = <<>>
    /\ collected = {}
    /\ returned = FALSE

MergeIdle ==
    /\ mgTraditional = <<>>
    /\ mgRegions = <<>>
    /\ mgMerged = <<>>
    /\ mgDone = FALSE

AiIdle ==
    /\ aiEnv = <<>>
    /\ ai = <<>>

LoadIdle ==
    /\ ldColumns = {}
    /\ ld = <<>>

NormIdle ==
    /\ nmText = <<>>
    /\ nmLevel = "none"
    /\ nmResult = <<>>

OrderIdle ==
    /\ odRows = <<>>
    /\ od = <<>>

LineIdle ==
    /\ lnTexts = <<>>
    /\ ln = <<>>

StageIdle ==
    /\ stEnv = <<>>
    /\ st = <<>>

RestIdle ==
    /\ NormIdle
    /\ OrderIdle
    /\ LineIdle
    /\ StageIdle

(***************************************************************************)
(* Specification of the scorer: the inputs are drawn from the bounded      *)
(* texts, the call scores them, and a later call scores the same verse     *)
(* against another reading of either text.                                 *)
(***************************************************************************)
Texts == UNION {[1..n -> Chars] : n \in 0..MaxLen}

AyaNumbers == 1..MaxAya

NotScored == -1

ScoreInit ==
    /\ scRef \in Texts
    /\ scExt \in Texts
    /\ scAya \in AyaNumbers
    /\ scResult = NotScored
    /\ PipeIdle
    /\ MergeIdle
    /\ AiIdle
    /\ LoadIdle
    /\ RestIdle

\* the call _calculate_match_score(ref_text, ref_clean, extracted.text, aya_number)
CalculateMatchScore ==
    /\ scResult = NotScored
    /\ scResult' = calculate_match_score(scRef, clean_text(scRef), scExt, scAya)
    /\ UNCHANGED <<scRef, scExt, scAya, pipeVars, mergeVars, aiVars, loadVars, restVars>>

\* the same call for another extracted line
RescoreExtracted ==
    /\ scResult # NotScored
    /\ \E t \in Texts :
          /\ scExt' = t
          /\ scResult' = calculate_match_score(scRef, clean_text(scRef), t, scAya)
    /\ UNCHANGED <<scRef, scAya, pipeVars, mergeVars, aiVars, loadVars, restVars>>

\* the same call for another reference text
RescoreReference ==
    /\ scResult # NotScored
    /\ \E t \in Texts :
          /\ scRef' = t
          /\ scResult' = calculate_match_score(t, clean_text(t), scExt, scAya)
    /\ UNCHANGED <<scExt, scAya, pipeVars, mergeVars, aiVars, loadVars, restVars>>

ScoreNext == CalculateMatchScore \/ RescoreExtracted \/ RescoreReference

SpecScore == ScoreInit /\ [][ScoreNext]_vars

(***************************************************************************)
(* Claims about the scorer (specification SpecScore)                       *)
(***************************************************************************)
Scored == scResult # NotScored

\* C4: a non-empty text that cleaning leaves as it is (no diacritics, no
\* digits, nothing to normalise), scored against itself as the reference,
\* scores exactly 1.0.
C4_SelfScoreIsOne ==
    (Scored /\ scRef # <<>> /\ scRef = scExt /\ clean_text(scRef) = scRef)
        => scResult = Unit

\* the step rescored one of the two texts and both calls returned a score
RescoredStep == Scored /\ scResult' # NotScored

SameClean ==
    /\ clean_text(scRef') = clean_text(scRef)
    /\ clean_text(scExt') = clean_text(scExt)

\* what the bonuses read from the raw texts
SameRawMarks ==
    /\ (scRef' = <<>>) <=> (scRef = <<>>)
    /\ (scExt' = <<>>) <=> (scExt = <<>>)
    /\ VerseValues(scRef') = VerseValues(scRef)
    /\ VerseValues(scExt') = VerseValues(scExt)
    /\ UthmaniSymbols(scRef') = UthmaniSymbols(scRef)
    /\ UthmaniSymbols(scExt') = UthmaniSymbols(scExt)

\* C5 as stated: the score depends only on the cleaned forms of the two
\* texts, so rescoring a text with the same cleaned form returns the same
\* score.
C5_ScoreDependsOnlyOnClean ==
    [][(RescoredStep /\ SameClean) => scResult' = scResult]_vars

\* C5 amended: the score depends only on the cleaned forms of the two texts
\* together with what the bonuses read from the raw texts: whether a text is
\* empty, the verse numbers it holds and the set of Uthmani symbols it holds.
C5_ScoreDependsOnCleanAndRawMarks ==
    [][(RescoredStep /\ SameClean /\ SameRawMarks) => scResult' = scResult]_vars

\* a scored pair whose extracted line has another raw reading with the same
\* cleaned form, verse numbers and symbols
C5_Witness ==
    /\ Scored
    /\ scResult > 0
    /\ \E t \in Texts :
          /\ t # scExt
          /\ clean_text(t) = clean_text(scExt)
          /\ VerseValues(t) = VerseValues(scExt)
          /\ UthmaniSymbols(t) = UthmaniSymbols(scExt)

(***************************************************************************)
(* The corpus and the page sources                                         *)
(***************************************************************************)
Pages == 1..NumPages

\* AyatExtractor.hafs_data: the rows of the corpus, in the order of the file;
\* a page past the second is a title page without verses
hafs_rows ==
    << [sura_no |-> 1, aya_no |-> 1, page |-> 1, aya_text |-> <<"ba", "fatha">>],
       [sura_no |-> 1, aya_no |-> 2, page |-> 1, aya_text |-> <<"ba", "meem">>],
       [sura_no |-> 2, aya_no |-> 1, page |-> 2, aya_text |-> <<"meem">>] >>

\* _load_hafs_data: text_clean is computed once for every row
hafs_data ==
    [i \in 1..Len(hafs_rows) |->
        [sura_no    |-> hafs_rows[i].sura_no,
         aya_no     |-> hafs_rows[i].aya_no,
         page       |-> hafs_rows[i].page,
         aya_text   |-> hafs_rows[i].aya_text,
         text_clean |-> clean_text(hafs_rows[i].aya_text)]]

\* the filter with <= for ==: the verses of the earlier pages come too
page_ayat_upto(page_num) == SelectSeq(hafs_data, LAMBDA row : row.page <= page_num)

\* match_ayat_with_texts: ayat_df[ayat_df['page'] == page_num]
page_ayat(page_num) == SelectSeq(hafs_data, LAMBDA row : row.page = page_num)

\* an ExtractedText: a line with its text and the backend it came from
ExtractedText(text, source) == [text |-> text, source |-> source]

\* the lines an SVG page can yield when they are drawn freely
\* (the last one is a verse-number marker standing on its own)
CandidateTexts == {<<"ba">>, <<"ba", "meem">>, <<"meem">>, <<"ba", "ar1">>, <<"ar1">>}

CandidateLists ==
    UNION {[1..n -> {ExtractedText(t, "svg") : t \in CandidateTexts}] : n \in 0..MaxFrags}

\* the lines of the SVG file of a page of the fixed book
BookSvgLines(page) ==
    IF page = 1 THEN <<ExtractedText(<<"ba", "meem">>, "svg"), ExtractedText(<<"ba">>, "svg")>>
    ELSE IF page = 2 THEN <<ExtractedText(<<"meem", "d1">>, "svg")>>
    ELSE <<ExtractedText(<<"ba">>, "svg")>>

\* the lines of the PDF page of a page of the fixed book
BookPdfLines(page) ==
    IF page = 1 THEN <<ExtractedText(<<"ba", "ar1">>, "pdf")>>
    ELSE <<ExtractedText(<<"meem">>, "pdf")>>

\* config['min_similarity'], in 1/Unit: 0, 0.3 (the default), 0.8 and 1.1
MinSimilarities == {0, 300 * D, 800 * D, 1100 * D}

\* config.get('max_workers', 4)
max_workers == 4

\* process_page: len(extracted_texts) < 5
pdf_fallback_below == 5

StatKeys == {"svg_pages", "pdf_pages", "matched", "unmatched", "total_pages"}

(***************************************************************************)
(* AyatExtractor.match_ayat_with_texts: one reference verse                *)
(***************************************************************************)
\* the acceptance test without the threshold
accepts_any(score, best_score, min_similarity) ==
    score > best_score

\* the acceptance test of a candidate's score against the best so far
accepts(score, best_score, min_similarity) ==
    score > best_score /\ score >= min_similarity

\* the loop without the test of used_texts: a used candidate is scored again
RECURSIVE scan_texts_reusing(_, _, _, _, _, _)
scan_texts_reusing(aya_row, extracted_texts, used_texts, min_similarity, text_idx, best) ==
    IF text_idx > Len(extracted_texts) THEN best
    ELSE LET score == calculate_match_score(aya_row.aya_text, aya_row.text_clean,
                                            extracted_texts[text_idx].text,
                                            aya_row.aya_no)
             seen  == [best EXCEPT !.scored = @ \cup {text_idx}]
         IN  scan_texts_reusing(aya_row, extracted_texts, used_texts, min_similarity,
                        text_idx + 1,
                        IF accepts(score, best.best_score, min_similarity)
                        THEN [seen EXCEPT !.best_score = score,
                                          !.best_text_idx = text_idx]
                        ELSE seen)

\* the loop over extracted_texts from text_idx on; best is the record of
\* best_score, best_text_idx (-1: none) and of the indices scored
RECURSIVE scan_texts(_, _, _, _, _, _)
scan_texts(aya_row, extracted_texts, used_texts, min_similarity, text_idx, best) ==
    IF text_idx > Len(extracted_texts) THEN best
    ELSE IF text_idx \in used_texts
    THEN scan_texts(aya_row, extracted_texts, used_texts, min_similarity,
                    text_idx + 1, best)
    ELSE LET score == calculate_match_score(aya_row.aya_text, aya_row.text_clean,
                                            extracted_texts[text_idx].text,
                                            aya_row.aya_no)
             seen  == [best EXCEPT !.scored = @ \cup {text_idx}]
         IN  scan_texts(aya_row, extracted_texts, used_texts, min_similarity,
                        text_idx + 1,
                        IF accepts(score, best.best_score, min_similarity)
                        THEN [seen EXCEPT !.best_score = score,
                                          !.best_text_idx = text_idx]
                        ELSE seen)

best_candidate(aya_row, extracted_texts, used_texts, min_similarity) ==
    scan_texts(aya_row, extracted_texts, used_texts, min_similarity, 1,
               [best_score |-> 0, best_text_idx |-> -1, scored |-> {}])

\* the MatchedAyah built for a verse and its best candidate
MatchedAyah(page_num, aya_row, extracted_texts, best) ==
    [page           |-> page_num,
     sura_no        |-> aya_row.sura_no,
     aya_no         |-> aya_row.aya_no,
     text_uthmani   |-> aya_row.aya_text,
     text_extracted |-> extracted_texts[best.best_text_idx].text,
     text_clean     |-> clean_text(extracted_texts[best.best_text_idx].text),
     similarity     |-> best.best_score,
     source         |-> extracted_texts[best.best_text_idx].source,
     text_idx       |-> best.best_text_idx]

(***************************************************************************)
(* AyatExtractor.process_pages and process_page                            *)
(*                                                                         *)
(* task[p].pc follows the call process_page(p):                            *)
(*   "none"    p is outside the range                                      *)
(*   "queued"  submitted to the executor, or not yet reached by the loop   *)
(*   "svg"     before the SVG stage                                        *)
(*   "pdf"     before the PDF stage                                        *)
(*   "check"   before the test of an empty extracted_texts                 *)
(*   "match"   in match_ayat_with_texts, before the verse at pos           *)
(*   "load"    in self.stats[key] += 1, before the value is read           *)
(*   "store"   in self.stats[key] += 1, before the sum is written          *)
(*   "endpage" before the return of process_page                           *)
(*   "done"    returned matches;  "raised"  left by an exception           *)
(***************************************************************************)
RangePages == cfg.start_page..cfg.end_page

\* process_pages: parallel and len(pages) > 1
RunsParallel == cfg.parallel /\ Cardinality(RangePages) > 1

Running == {p \in RangePages : task[p].pc \notin {"none", "queued", "done", "raised"}}

\* a page counts as finished as soon as its task has started
Finished_once_started(p) == task[p].pc \notin {"none", "queued"}

Finished(p) == task[p].pc \in {"done", "raised"}

NewTask(pc) ==
    [pc |-> pc, texts |-> <<>>, pos |-> 0, used |-> {}, matches |-> <<>>,
     key |-> "none", reg |-> 0, ret |-> "none", scored |-> {}]

\* self.stats[key] += 1 is a read followed by a write: the call goes on at ret
Increment(t, key, ret) == [t EXCEPT !.pc = "load", !.key = key, !.ret = ret]

\* a worker of the pool takes the next submitted page (parallel), or the loop
\* reaches the next page of the range (sequential)
StartPage(p) ==
    /\ ~returned
    /\ p \in RangePages
    /\ task[p].pc = "queued"
    /\ \A q \in RangePages : q < p => task[q].pc # "queued"
    /\ IF RunsParallel
       THEN Cardinality(Running) < Min2(max_workers, Cardinality(RangePages))
       ELSE \A q \in RangePages : q < p => q \in collected
    /\ task' = [task EXCEPT ![p].pc = "svg"]
    /\ UNCHANGED <<cfg, src, stats, all_matches, collected, returned,
                   scoreVars, mergeVars, aiVars, loadVars, restVars>>

\* extract_from_svg: the lines of the file, [] when it cannot be parsed
extract_from_svg(p) == IF src[p].svg = "parsed" THEN src[p].svg_lines ELSE <<>>

\* extract_from_pdf: the lines of the page, [] when it cannot be read
extract_from_pdf(p) == IF src[p].pdf_ok THEN src[p].pdf_lines ELSE <<>>

\* process_page: the SVG stage (prefer_svg and svg_folder are set)
SvgStage(p) ==
    /\ task[p].pc = "svg"
    /\ IF src[p].svg # "missing"
       THEN task' = [task EXCEPT ![p] =
                        Increment([@ EXCEPT !.texts = extract_from_svg(p)],
                                  "svg_pages", "pdf")]
       ELSE task' = [task EXCEPT ![p].pc = "pdf"]
    /\ UNCHANGED <<cfg, src, stats, all_matches, collected, returned,
                   scoreVars, mergeVars, aiVars, loadVars, restVars>>

\* process_page: the PDF stage
PdfStage(p) ==
    /\ task[p].pc = "pdf"
    /\ IF Len(task[p].texts) < pdf_fallback_below /\ cfg.pdf_path
       THEN task' = [task EXCEPT ![p] =
                        Increment([@ EXCEPT !.texts = @ \o extract_from_pdf(p)],
                                  "pdf_pages", "check")]
       ELSE task' = [task EXCEPT ![p].pc = "check"]
    /\ UNCHANGED <<cfg, src, stats, all_matches, collected, returned,
                   scoreVars, mergeVars, aiVars, loadVars, restVars>>

\* process_page: if not extracted_texts: return []
CheckTexts(p) ==
    /\ task[p].pc = "check"
    /\ IF task[p].texts = <<>>
       THEN task' = [task EXCEPT ![p].pc = "done"]
       ELSE task' = [task EXCEPT ![p].pc = "match", ![p].pos = 1]
    /\ UNCHANGED <<cfg, src, stats, all_matches, collected, returned,
                   scoreVars, mergeVars, aiVars, loadVars, restVars>>

\* match_ayat_with_texts: one turn of the loop over the verses of the page
MatchAya(p) ==
    /\ task[p].pc = "match"
    /\ task[p].pos <= Len(page_ayat(p))
    /\ src[p].raise_at # task[p].pos
    /\ LET t       == task[p]
           aya_row == page_ayat(p)[t.pos]
           best    == best_candidate(aya_row, t.texts, t.used, cfg.min_similarity)
           next    == [t EXCEPT !.pos = @ + 1, !.scored = best.scored]
       IN  IF best.best_text_idx # -1
           THEN task' = [task EXCEPT ![p] =
                   Increment([next EXCEPT
                                 !.used = @ \cup {best.best_text_idx},
                                 !.matches = Append(@, MatchedAyah(p, aya_row, t.texts, best))],
                             "matched", "match")]
           ELSE task' = [task EXCEPT ![p] = Increment(next, "unmatched", "match")]
    /\ UNCHANGED <<cfg, src, stats, all_matches, collected, returned,
                   scoreVars, mergeVars, aiVars, loadVars, restVars>>

\* a row the loop cannot handle raises out of process_page
RaiseInMatch(p) ==
    /\ task[p].pc = "match"
    /\ task[p].pos <= Len(page_ayat(p))
    /\ src[p].raise_at = task[p].pos
    /\ task' = [task EXCEPT ![p].pc = "raised"]
    /\ UNCHANGED <<cfg, src, stats, all_matches, collected, returned,
                   scoreVars, mergeVars, aiVars, loadVars, restVars>>

\* match_ayat_with_texts returns; process_page counts the page
MatchReturn(p) ==
    /\ task[p].pc = "match"
    /\ task[p].pos > Len(page_ayat(p))
    /\ task' = [task EXCEPT ![p] = Increment(@, "total_pages", "endpage")]
    /\ UNCHANGED <<cfg, src, stats, all_matches, collected, returned,
                   scoreVars, mergeVars, aiVars, loadVars, restVars>>

\* self.stats[key] += 1: the read
LoadStat(p) ==
    /\ task[p].pc = "load"
    /\ task' = [task EXCEPT ![p].pc = "store", ![p].reg = stats[task[p].key]]
    /\ UNCHANGED <<cfg, src, stats, all_matches, collected, returned,
                   scoreVars, mergeVars, aiVars, loadVars, restVars>>

\* self.stats[key] += 1: the write
StoreStat(p) ==
    /\ task[p].pc = "store"
    /\ stats' = [stats EXCEPT ![task[p].key] = task[p].reg + 1]
    /\ task' = [task EXCEPT ![p].pc = task[p].ret]
    /\ UNCHANGED <<cfg, src, all_matches, collected, returned,
                   scoreVars, mergeVars, aiVars, loadVars, restVars>>

\* process_page: return matches
ReturnPage(p) ==
    /\ task[p].pc = "endpage"
    /\ task' = [task EXCEPT ![p].pc = "done"]
    /\ UNCHANGED <<cfg, src, stats, all_matches, collected, returned,
                   scoreVars, mergeVars, aiVars, loadVars, restVars>>

\* what the call of process_page(p) hands to process_pages
PageResult(p) == IF task[p].pc = "done" THEN task[p].matches ELSE <<>>

\* process_pages: all_matches.extend(matches), or the except branch
CollectPage(p) ==
    /\ p \in RangePages
    /\ Finished(p)
    /\ p \notin collected
    /\ all_matches' = all_matches \o PageResult(p)
    /\ collected' = collected \cup {p}
    /\ UNCHANGED <<cfg, src, task, stats, returned, scoreVars, mergeVars, aiVars, loadVars, restVars>>

\* process_pages without the try/except: an exception of a page ends the run
ReturnAll_onException ==
    /\ ~returned
    /\ collected = RangePages \/ \E p \in RangePages : task[p].pc = "raised"
    /\ returned' = TRUE
    /\ UNCHANGED <<cfg, src, task, stats, all_matches, collected,
                   scoreVars, mergeVars, aiVars, loadVars, restVars>>

\* process_pages: return all_matches
ReturnAll ==
    /\ ~returned
    /\ collected = RangePages
    /\ returned' = TRUE
    /\ UNCHANGED <<cfg, src, task, stats, all_matches, collected,
                   scoreVars, mergeVars, aiVars, loadVars, restVars>>

PipeNext ==
    \/ \E p \in Pages : StartPage(p)
    \/ \E p \in Pages : SvgStage(p)
    \/ \E p \in Pages : PdfStage(p)
    \/ \E p \in Pages : CheckTexts(p)
    \/ \E p \in Pages : MatchAya(p)
    \/ \E p \in Pages : RaiseInMatch(p)
    \/ \E p \in Pages : MatchReturn(p)
    \/ \E p \in Pages : LoadStat(p)
    \/ \E p \in Pages : StoreStat(p)
    \/ \E p \in Pages : ReturnPage(p)
    \/ \E p \in Pages : CollectPage(p)
    \/ ReturnAll

\* a page outside the range, or one whose source never raises
PageSource(svg, svg_lines, pdf_ok, pdf_lines, raise_at) ==
    [svg |-> svg, svg_lines |-> svg_lines, pdf_ok |-> pdf_ok,
     pdf_lines |-> pdf_lines, raise_at |-> raise_at]

DefaultSource(p) == PageSource("parsed", BookSvgLines(p), TRUE, BookPdfLines(p), 0)

\* the state process_pages(start_page, end_page, parallel) starts from
PipeStart ==
    /\ task = [p \in Pages |-> NewTask(IF p \in RangePages THEN "queued" ELSE "none")]
    /\ stats = [k \in StatKeys |-> 0]
    /\ all_matches = <<>>
    /\ collected = {}
    /\ returned = FALSE
    /\ ScoreIdle
    /\ MergeIdle
    /\ AiIdle
    /\ LoadIdle
    /\ RestIdle

\* one page, its SVG lines drawn freely: the matcher on every candidate list
MatchInit ==
    /\ \E page \in Pages, m \in MinSimilarities, pdf \in BOOLEAN :
          cfg = [start_page |-> page, end_page |-> page, parallel |-> FALSE,
                 min_similarity |-> m, pdf_path |-> pdf]
    /\ \E svg \in {"missing", "unparsable", "parsed"}, lines \in CandidateLists,
          pdf_ok \in BOOLEAN, raise_at \in 0..1 :
          /\ svg # "parsed" => lines = <<>>
          /\ src = [p \in Pages |->
                      IF p = cfg.start_page
                      THEN PageSource(svg, lines, pdf_ok, BookPdfLines(p), raise_at)
                      ELSE DefaultSource(p)]
    /\ PipeStart

SpecMatch == MatchInit /\ [][PipeNext]_vars

\* a range of pages of the fixed book, sequential or parallel
PagesInit ==
    /\ \E s \in Pages, e \in Pages, par \in BOOLEAN, m \in {300 * D, 800 * D},
          pdf \in BOOLEAN :
          /\ s <= e
          /\ cfg = [start_page |-> s, end_page |-> e, parallel |-> par,
                    min_similarity |-> m, pdf_path |-> pdf]
    /\ src \in [Pages -> UNION {{PageSource(svg, BookSvgLines(p), TRUE,
                                            BookPdfLines(p), raise_at) :
                                    svg \in {"unparsable", "parsed"},
                                    raise_at \in 0..1} : p \in Pages}]
    /\ \A p \in Pages :
          /\ src[p].svg_lines = BookSvgLines(p)
          /\ src[p].pdf_lines = BookPdfLines(p)
          /\ p \notin RangePages => src[p] = DefaultSource(p)
    /\ PipeStart

SpecPages == PagesInit /\ [][PipeNext]_vars

(***************************************************************************)
(* Claims about the matcher (specification SpecMatch)                      *)
(***************************************************************************)
\* every MatchedAyah built so far, by a call in progress or returned
Emitted ==
    {task[p].matches[i] : p \in {q \in Pages : task[q].matches # <<>>},
                          i \in 1..MaxFrags + 1}

MatchesOf(p) == {task[p].matches[i] : i \in 1..Len(task[p].matches)}

AllMatches == {all_matches[i] : i \in 1..Len(all_matches)}

\* C1: every MatchedAyah emitted by match_ayat_with_texts, whatever the page,
\* the candidate list and the configured min_similarity, has a similarity of
\* at least min_similarity.
C1_SimilarityAtLeastThreshold ==
    /\ \A p \in Pages : \A m \in MatchesOf(p) : m.similarity >= cfg.min_similarity
    /\ \A m \in AllMatches : m.similarity >= cfg.min_similarity

\* a returned run that matched one verse and left another unmatched although
\* a candidate was still free: the threshold rejected it
C1_Witness ==
    /\ returned
    /\ cfg.min_similarity > 0
    /\ \E p \in Pages :
          /\ Len(all_matches) >= 1
          /\ task[p].pc = "done"
          /\ task[p].pos > Len(page_ayat(p))
          /\ Len(task[p].matches) < Len(page_ayat(p))
          /\ Cardinality(task[p].used) < Len(task[p].texts)

\* the candidates consumed by the matches of a call are pairwise distinct and
\* are exactly the ones marked used
ConsumedOnce(p) ==
    /\ \A i, j \in 1..Len(task[p].matches) :
          i # j => task[p].matches[i].text_idx # task[p].matches[j].text_idx
    /\ task[p].used = {task[p].matches[i].text_idx : i \in 1..Len(task[p].matches)}

\* the step is a turn of the matcher's loop for page p
MatchTurn(p) == task[p].pc = "match" /\ task'[p].pos = task[p].pos + 1

\* C2: within one matching pass every candidate (index in the extracted
\* list) is consumed by at most one MatchedAyah: a used candidate is never
\* scored or selected for a later verse, and is never released.
C2_CandidateConsumedOnce ==
    /\ [](\A p \in Pages : ConsumedOnce(p))
    /\ [][\A p \in Pages :
            /\ task[p].used \subseteq task'[p].used
            /\ MatchTurn(p) => task'[p].scored \cap task[p].used = {}
            /\ MatchTurn(p) => \A i \in (Len(task[p].matches) + 1)..Len(task'[p].matches) :
                                  task'[p].matches[i].text_idx \notin task[p].used]_vars

\* a pass in which two verses consumed two candidates, the second verse having
\* skipped the candidate the first one took
C2_Witness ==
    \E p \in Pages :
        /\ Len(task[p].matches) = 2
        /\ Cardinality(task[p].used) = 2
        /\ task[p].scored # {}
        /\ task[p].matches[1].text_idx \notin task[p].scored

(***************************************************************************)
(* Claims about process_pages (specification SpecPages)                    *)
(***************************************************************************)
\* the verses the corpus registers for a page
RegisteredVerses(page) ==
    {<<hafs_rows[i].sura_no, hafs_rows[i].aya_no>> :
        i \in {k \in 1..Len(hafs_rows) : hafs_rows[k].page = page}}

CorpusUniquelyKeyed ==
    \A i, j \in 1..Len(hafs_rows) :
        (hafs_rows[i].sura_no = hafs_rows[j].sura_no
            /\ hafs_rows[i].aya_no = hafs_rows[j].aya_no) => i = j

RecordsOfPage(page) == {i \in 1..Len(all_matches) : all_matches[i].page = page}

\* C3: with a corpus uniquely keyed by (sura, verse), a run over a page
\* range, sequential or parallel, holds at most one MatchedAyah per
\* (page, sura, verse), so a page never has more records than the verses
\* registered for it.
C3_OneMatchPerVerse ==
    CorpusUniquelyKeyed =>
       /\ \A i, j \in 1..Len(all_matches) :
             (all_matches[i].page = all_matches[j].page
                /\ all_matches[i].sura_no = all_matches[j].sura_no
                /\ all_matches[i].aya_no = all_matches[j].aya_no) => i = j
       /\ \A page \in Pages :
             Cardinality(RecordsOfPage(page)) <= Cardinality(RegisteredVerses(page))
       /\ \A p \in Pages :
             Len(task[p].matches) <= Cardinality(RegisteredVerses(p))

\* a parallel run over two pages that matched every verse of both
C3_Witness ==
    /\ returned
    /\ RunsParallel
    /\ \A page \in 1..2 :
          /\ page \in RangePages
          /\ Cardinality(RecordsOfPage(page)) = Cardinality(RegisteredVerses(page))
          /\ Len(src[page].svg_lines) + Len(src[page].pdf_lines) > Len(page_ayat(page))

\* every source of the page is unparsable: the SVG file, and the PDF page
\* when a PDF is configured
Unparsable(p) ==
    /\ src[p].svg = "unparsable"
    /\ ~cfg.pdf_path \/ ~src[p].pdf_ok

\* C6: when a page's source is unparsable the collector returns an empty list
\* without raising, the page contributes no MatchedAyah, and the verses
\* registered for the page are still counted as unmatched in the statistics.
C6_UnparsablePageCountedUnmatched ==
    returned =>
       \A p \in RangePages :
          Unparsable(p) =>
             /\ task[p].pc = "done"
             /\ task[p].texts = <<>>
             /\ RecordsOfPage(p) = {}
             /\ stats["unmatched"] >= Cardinality(RegisteredVerses(p))

\* the records of a page in all_matches, in order
RECURSIVE RecordsInOrder(_, _)
RecordsInOrder(s, page) ==
    IF s = <<>> THEN <<>>
    ELSE IF Head(s).page = page
         THEN <<Head(s)>> \o RecordsInOrder(Tail(s), page)
         ELSE RecordsInOrder(Tail(s), page)

\* C7: in process_pages, sequential and parallel, a failure while processing
\* one page contributes no result for that page and never aborts the range:
\* every other page is still processed and its records are in the list
\* returned.
C7_PageFailureIsolated ==
    returned =>
       \A p \in RangePages :
          /\ Finished(p)
          /\ task[p].pc = "raised" => RecordsOfPage(p) = {}
          /\ task[p].pc = "done" => RecordsInOrder(all_matches, p) = task[p].matches

\* a returned run in which one page raised and another page's matches are
\* in the result
C7_Witness ==
    /\ returned
    /\ \E p, q \in RangePages :
          /\ task[p].pc = "raised"
          /\ task[q].pc = "done"
          /\ task[q].matches # <<>>
          /\ RecordsOfPage(q) # {}

\* C8: in parallel mode the only shared mutable state is the result list,
\* appended to by the collecting thread alone, and no two page tasks ever
\* perform an unsynchronized read-modify-write of the same shared state: a
\* page task that has read a shared value writes it back before any other
\* task changes it.
C8_NoUnsynchronizedSharedUpdate ==
    \A p \in Pages :
        task[p].pc = "store" => stats[task[p].key] = task[p].reg

\* process_page(p) run on its own: the texts of the two stages
SequentialTexts(p) ==
    LET svg_texts == IF src[p].svg # "missing" THEN extract_from_svg(p) ELSE <<>>
    IN  IF Len(svg_texts) < pdf_fallback_below /\ cfg.pdf_path
        THEN svg_texts \o extract_from_pdf(p)
        ELSE svg_texts

\* process_page(p) run on its own: the matcher from the pos-th verse on; a
\* row that raises leaves the page without result
RECURSIVE SequentialMatches(_, _, _, _, _)
SequentialMatches(p, texts, pos, used, matches) ==
    IF pos > Len(page_ayat(p)) THEN matches
    ELSE IF src[p].raise_at = pos THEN <<>>
    ELSE LET best == best_candidate(page_ayat(p)[pos], texts, used, cfg.min_similarity)
         IN  IF best.best_text_idx # -1
             THEN SequentialMatches(p, texts, pos + 1, used \cup {best.best_text_idx},
                                    Append(matches, MatchedAyah(p, page_ayat(p)[pos],
                                                                texts, best)))
             ELSE SequentialMatches(p, texts, pos + 1, used, matches)

SequentialPage(p) ==
    IF SequentialTexts(p) = <<>> THEN <<>>
    ELSE SequentialMatches(p, SequentialTexts(p), 1, {}, <<>>)

\* the list of the sequential loop from page p to the end of the range
RECURSIVE SequentialResult(_)
SequentialResult(p) ==
    IF p > cfg.end_page THEN <<>>
    ELSE SequentialPage(p) \o SequentialResult(p + 1)

\* the multiset of the records of a list
RecordBag(s) ==
    [r \in {s[i] : i \in 1..Len(s)} |-> Cardinality({i \in 1..Len(s) : s[i] = r})]

Contiguous(s) ==
    \A i, j, k \in 1..Len(s) :
        (i < k /\ k < j /\ s[i].page = s[j].page) => s[k].page = s[i].page

\* C27: for the same corpus, configuration and page sources, process_pages
\* in parallel mode returns the same multiset of MatchedAyah records as in
\* sequential mode, under every interleaving and order of completion of the
\* page tasks; each page is processed exactly once, and the records of one
\* page form a contiguous block of the list returned.
C27_ParallelSameRecordsAsSequential ==
    returned =>
       /\ ~RunsParallel => all_matches = SequentialResult(cfg.start_page)
       /\ RecordBag(all_matches) = RecordBag(SequentialResult(cfg.start_page))
       /\ collected = RangePages
       /\ \A p \in Pages :
             /\ p \in RangePages => Finished(p)
             /\ p \notin RangePages => task[p].pc = "none"
             /\ RecordsInOrder(all_matches, p) =
                   (IF p \in RangePages THEN SequentialPage(p) ELSE <<>>)
       /\ Contiguous(all_matches)

\* a parallel run that returned the records of two pages, the later page's
\* first
C27_Witness ==
    /\ returned
    /\ RunsParallel
    /\ SequentialPage(1) # <<>>
    /\ SequentialPage(2) # <<>>
    /\ all_matches = SequentialPage(2) \o SequentialPage(1)

\* the pages of the range whose texts reached match_ayat_with_texts
ReachedMatching == {p \in RangePages : task[p].texts # <<>>}

\* the number of corpus verses on the pages of a set
RECURSIVE VersesOn(_)
VersesOn(pages) ==
    IF pages = {} THEN 0
    ELSE LET p == CHOOSE q \in pages : TRUE
         IN  Len(page_ayat(p)) + VersesOn(pages \ {p})

NoPageRaised == \A p \in RangePages : task[p].pc # "raised"

StatsConsistent ==
    /\ stats["matched"] = Len(all_matches)
    /\ stats["matched"] + stats["unmatched"] = VersesOn(ReachedMatching)

\* C28: when process_pages returns without any page having raised, the
\* shared statistics agree with the results under every interleaving of the
\* page tasks: stats['matched'] is the number of records returned, and
\* stats['matched'] + stats['unmatched'] is the number of corpus verses on
\* the pages that reached matching.
C28_StatsConsistentWithResults ==
    (returned /\ NoPageRaised) => StatsConsistent

\* the same for the runs that are not parallel
C28_StatsConsistentWhenSequential ==
    (returned /\ NoPageRaised /\ ~RunsParallel) => StatsConsistent

(***************************************************************************)
(* AyatExtractor._merge_ai_results and _calculate_bbox_overlap             *)
(*                                                                         *)
(* A bbox is <<x1, y1, x2, y2>> with x1 <= x2 and y1 <= y2.  An overlap is *)
(* kept as the fraction [n, d] with d > 0 that the division returns; 0.0   *)
(* is [0, 1].                                                              *)
(***************************************************************************)
\* _calculate_bbox_overlap
calculate_bbox_overlap(bbox1, bbox2) ==
    LET x_overlap    == Max2(0, Min2(bbox1[3], bbox2[3]) - Max2(bbox1[1], bbox2[1]))
        y_overlap    == Max2(0, Min2(bbox1[4], bbox2[4]) - Max2(bbox1[2], bbox2[2]))
        intersection == x_overlap * y_overlap
        area1        == (bbox1[3] - bbox1[1]) * (bbox1[4] - bbox1[2])
        area2        == (bbox2[3] - bbox2[1]) * (bbox2[4] - bbox2[2])
        union        == area1 + area2 - intersection
    IN  IF union > 0 THEN [n |-> intersection, d |-> union] ELSE [n |-> 0, d |-> 1]

\* overlap > best_overlap
overlap_greater(overlap, best_overlap) ==
    overlap.n * best_overlap.d > best_overlap.n * overlap.d

\* the test with >= 0.5 for > 0.5
accepts_region_from_half(overlap, best_overlap) ==
    overlap_greater(overlap, best_overlap) /\ 2 * overlap.n >= overlap.d

\* overlap > best_overlap and overlap > 0.5
accepts_region(overlap, best_overlap) ==
    overlap_greater(overlap, best_overlap) /\ 2 * overlap.n > overlap.d

\* the loop without the test idx in used_ai_regions
RECURSIVE scan_regions_reusing(_, _, _, _, _)
scan_regions_reusing(trad_text, text_regions, used_ai_regions, idx, best) ==
    IF idx > Len(text_regions) THEN best
    ELSE LET overlap == calculate_bbox_overlap(trad_text.bbox, text_regions[idx].bbox)
         IN  scan_regions_reusing(trad_text, text_regions, used_ai_regions, idx + 1,
                                  IF accepts_region(overlap, best.best_overlap)
                                  THEN [best_overlap |-> overlap, idx |-> idx]
                                  ELSE best)

\* the loop over ai_analysis.text_regions from idx on; best holds best_overlap
\* and the index of best_match (-1: none)
RECURSIVE scan_regions(_, _, _, _, _)
scan_regions(trad_text, text_regions, used_ai_regions, idx, best) ==
    IF idx > Len(text_regions) THEN best
    ELSE IF idx \in used_ai_regions
    THEN scan_regions(trad_text, text_regions, used_ai_regions, idx + 1, best)
    ELSE LET overlap == calculate_bbox_overlap(trad_text.bbox, text_regions[idx].bbox)
         IN  scan_regions(trad_text, text_regions, used_ai_regions, idx + 1,
                          IF accepts_region(overlap, best.best_overlap)
                          THEN [best_overlap |-> overlap, idx |-> idx]
                          ELSE best)

\* an ExtractedText of the traditional extraction; ai_text_type is the key
\* the merge adds to metadata, ai_idx the index of the region merged into it
TraditionalText(text, bbox, confidence) ==
    [text |-> text, bbox |-> bbox, source |-> "svg", confidence |-> confidence,
     ai_text_type |-> "none", ai_idx |-> -1]

\* a TextRegion of the AI analysis
TextRegion(bbox, text, confidence, text_type) ==
    [bbox |-> bbox, text |-> text, confidence |-> confidence, text_type |-> text_type]

\* the merged fragment that keeps the traditional bbox
enhanced_text_own_bbox(trad_text, ai_region, idx) ==
    [text |-> trad_text.text, bbox |-> trad_text.bbox, source |-> "svg_ai_enhanced",
     confidence |-> Max2(trad_text.confidence, ai_region.confidence),
     ai_text_type |-> ai_region.text_type, ai_idx |-> idx]

\* enhanced_text = ExtractedText(text=trad_text.text, bbox=ai_region.bbox, ...)
enhanced_text(trad_text, ai_region, idx) ==
    [text |-> trad_text.text, bbox |-> ai_region.bbox, source |-> "svg_ai_enhanced",
     confidence |-> Max2(trad_text.confidence, ai_region.confidence),
     ai_text_type |-> ai_region.text_type, ai_idx |-> idx]

\* a TextRegion.text that is None (a JSON null in the detector's answer)
NoneText == <<"None">>

\* text or ''
text_or_empty(text) == IF text = NoneText THEN <<>> ELSE text

\* the fragment appended for a region no traditional text matched
ai_only_text(ai_region, idx) ==
    [text |-> text_or_empty(ai_region.text), bbox |-> ai_region.bbox, source |-> "ai_only",
     confidence |-> ai_region.confidence,
     ai_text_type |-> ai_region.text_type, ai_idx |-> idx]

\* the first loop, from the i-th traditional text on
RECURSIVE merge_traditional(_, _, _, _, _)
merge_traditional(traditional_texts, text_regions, i, used_ai_regions, merged) ==
    IF i > Len(traditional_texts)
    THEN [merged |-> merged, used_ai_regions |-> used_ai_regions]
    ELSE LET trad_text == traditional_texts[i]
             best == scan_regions(trad_text, text_regions, used_ai_regions, 1,
                                  [best_overlap |-> [n |-> 0, d |-> 1], idx |-> -1])
         IN  IF best.idx # -1
             THEN merge_traditional(traditional_texts, text_regions, i + 1,
                                    used_ai_regions \cup {best.idx},
                                    Append(merged, enhanced_text(trad_text,
                                                                 text_regions[best.idx],
                                                                 best.idx)))
             ELSE merge_traditional(traditional_texts, text_regions, i + 1,
                                    used_ai_regions, Append(merged, trad_text))

\* the second loop without the test text_type == 'ayah'
RECURSIVE append_ai_only_any_type(_, _, _, _)
append_ai_only_any_type(text_regions, used_ai_regions, idx, merged) ==
    IF idx > Len(text_regions) THEN merged
    ELSE append_ai_only_any_type(text_regions, used_ai_regions, idx + 1,
                                 IF idx \notin used_ai_regions
                                 THEN Append(merged, ai_only_text(text_regions[idx], idx))
                                 ELSE merged)

\* the second loop, from the idx-th region on
RECURSIVE append_ai_only(_, _, _, _)
append_ai_only(text_regions, used_ai_regions, idx, merged) ==
    IF idx > Len(text_regions) THEN merged
    ELSE append_ai_only(text_regions, used_ai_regions, idx + 1,
                        IF idx \notin used_ai_regions /\ text_regions[idx].text_type = "ayah"
                        THEN Append(merged, ai_only_text(text_regions[idx], idx))
                        ELSE merged)

\* a merge that returns nothing when the analysis holds no region
merge_ai_results_needs_regions(traditional_texts, text_regions) ==
    IF text_regions = <<>> THEN <<>>
    ELSE append_ai_only(text_regions,
                        merge_traditional(traditional_texts, text_regions, 1, {}, <<>>).used_ai_regions,
                        1,
                        merge_traditional(traditional_texts, text_regions, 1, {}, <<>>).merged)

\* _merge_ai_results(traditional_texts, ai_analysis)
merge_ai_results(traditional_texts, text_regions) ==
    LET first == merge_traditional(traditional_texts, text_regions, 1, {}, <<>>)
    IN  append_ai_only(text_regions, first.used_ai_regions, 1, first.merged)

(***************************************************************************)
(* Specification of the reconciler: the two lists are drawn from bounded   *)
(* sets of fragments and regions, and the call merges them.                *)
(***************************************************************************)
BoxA == <<0, 0, 10, 10>>

BoxB == <<5, 5, 15, 15>>

BoxC == <<0, 0, 10, 8>>

BoxE == <<0, 2, 10, 10>>

BoxF == <<0, 0, 10, 5>>

BoxZ == <<3, 3, 3, 3>>

TraditionalTexts ==
    {TraditionalText(<<"ba">>, b, c) : b \in {BoxA, BoxC, BoxZ}, c \in {50, 100}}

TextRegions ==
    {TextRegion(b, <<"meem">>, 80, t) :
        b \in {BoxB, BoxC, BoxE, BoxF, BoxZ}, t \in {"ayah", "decoration"}}
    \cup {TextRegion(BoxB, NoneText, 80, "ayah")}

MergeInit ==
    /\ mgTraditional \in UNION {[1..n -> TraditionalTexts] : n \in 0..MaxTraditional}
    /\ mgRegions \in UNION {[1..n -> TextRegions] : n \in 0..MaxRegions}
    /\ mgMerged = <<>>
    /\ mgDone = FALSE
    /\ ScoreIdle
    /\ PipeIdle
    /\ AiIdle
    /\ LoadIdle
    /\ RestIdle

\* the call _merge_ai_results(traditional_texts, page_analysis)
MergeAiResults ==
    /\ ~mgDone
    /\ mgMerged' = merge_ai_results(mgTraditional, mgRegions)
    /\ mgDone' = TRUE
    /\ UNCHANGED <<mgTraditional, mgRegions, scoreVars, pipeVars, aiVars, loadVars, restVars>>

MergeNext == MergeAiResults

SpecMerge == MergeInit /\ [][MergeNext]_vars

(***************************************************************************)
(* Claims about the reconciler (specification SpecMerge)                   *)
(***************************************************************************)
\* the unit squares a bbox covers
Cells(bbox) ==
    {c \in (0..15) \X (0..15) :
        /\ bbox[1] <= c[1] /\ c[1] < bbox[3]
        /\ bbox[2] <= c[2] /\ c[2] < bbox[4]}

InterArea(b1, b2) == Cardinality(Cells(b1) \cap Cells(b2))

UnionArea(b1, b2) == Cardinality(Cells(b1) \cup Cells(b2))

\* IoU(b1, b2) > IoU(c1, c2), an IoU over an empty union being 0
IoUGreater(b1, b2, c1, c2) ==
    /\ UnionArea(b1, b2) > 0
    /\ \/ UnionArea(c1, c2) = 0 /\ InterArea(b1, b2) > 0
       \/ /\ UnionArea(c1, c2) > 0
          /\ InterArea(b1, b2) * UnionArea(c1, c2) > InterArea(c1, c2) * UnionArea(b1, b2)

\* IoU(b1, b2) > 0.5
IoUAboveHalf(b1, b2) == 2 * InterArea(b1, b2) > UnionArea(b1, b2)

\* region r has the greatest IoU with the primary among the regions of R
GreatestIn(R, primary, r) ==
    /\ r \in R
    /\ \A q \in R : ~IoUGreater(primary.bbox, mgRegions[q].bbox,
                                primary.bbox, mgRegions[r].bbox)

\* the output holds, for the i-th primary, the fragment merged with region r
MergedWith(i, r) ==
    /\ mgMerged[i].source = "svg_ai_enhanced"
    /\ mgMerged[i].text = mgTraditional[i].text
    /\ mgMerged[i].bbox = mgRegions[r].bbox
    /\ mgMerged[i].confidence =
          Max2(mgTraditional[i].confidence, mgRegions[r].confidence)

\* C9 as stated: for every primary, independently of the others, when the
\* region of greatest IoU with it has an IoU above 0.5, the output holds one
\* merged fragment for it: the primary's text, that region's bbox, the
\* greater confidence and the AI-enhanced source.
C9_EachPrimaryMergedWithBestRegion ==
    mgDone =>
       \A i \in 1..Len(mgTraditional) :
          (\E r \in 1..Len(mgRegions) :
              /\ GreatestIn(1..Len(mgRegions), mgTraditional[i], r)
              /\ IoUAboveHalf(mgTraditional[i].bbox, mgRegions[r].bbox))
          => \E r \in 1..Len(mgRegions) :
                /\ GreatestIn(1..Len(mgRegions), mgTraditional[i], r)
                /\ MergedWith(i, r)

\* the regions no earlier primary was merged with
FreeRegions(i) ==
    (1..Len(mgRegions)) \ {mgMerged[j].ai_idx : j \in 1..(i - 1)}

\* C9 amended: for every primary, when the region of greatest IoU with it
\* among the regions not merged into an earlier primary has an IoU above
\* 0.5, the output holds one merged fragment for it: the primary's text, that
\* region's bbox, the greater confidence and the AI-enhanced source.
C9_EachPrimaryMergedWithBestFreeRegion ==
    mgDone =>
       /\ Len(mgMerged) >= Len(mgTraditional)
       /\ \A i \in 1..Len(mgTraditional) :
             (\E r \in FreeRegions(i) :
                 /\ GreatestIn(FreeRegions(i), mgTraditional[i], r)
                 /\ IoUAboveHalf(mgTraditional[i].bbox, mgRegions[r].bbox))
             => \E r \in FreeRegions(i) :
                   /\ GreatestIn(FreeRegions(i), mgTraditional[i], r)
                   /\ MergedWith(i, r)
                   /\ mgMerged[i].ai_idx = r

\* two primaries were merged, the second with a region other than the one of
\* greatest IoU with it, which the first had taken
C9_Witness ==
    /\ mgDone
    /\ Len(mgTraditional) = 2
    /\ mgMerged[1].source = "svg_ai_enhanced"
    /\ mgMerged[2].source = "svg_ai_enhanced"
    /\ mgMerged[1].bbox # mgTraditional[1].bbox
    /\ IoUGreater(mgTraditional[2].bbox, mgRegions[mgMerged[1].ai_idx].bbox,
                  mgTraditional[2].bbox, mgRegions[mgMerged[2].ai_idx].bbox)

\* C10: the reconciler never merges a primary with a region whose IoU with
\* it is at most 0.5, the IoU being intersection area over union area and 0
\* when the union area is 0; bboxes [0,0,10,10] and [5,5,15,15] have IoU
\* 25/175 and are not merged.
C10_NoMergeAtOrBelowHalf ==
    /\ \A i \in 1..Len(mgTraditional), r \in 1..Len(mgRegions) :
          LET b1 == mgTraditional[i].bbox
              b2 == mgRegions[r].bbox
          IN  /\ calculate_bbox_overlap(b1, b2) =
                    IF UnionArea(b1, b2) = 0 THEN [n |-> 0, d |-> 1]
                    ELSE [n |-> InterArea(b1, b2), d |-> UnionArea(b1, b2)]
              /\ (b1 = BoxA /\ b2 = BoxB) =>
                    calculate_bbox_overlap(b1, b2) = [n |-> 25, d |-> 175]
    /\ mgDone =>
          \A i \in 1..Len(mgTraditional) :
             /\ mgMerged[i].source \in {"svg", "svg_ai_enhanced"}
             /\ mgMerged[i].source = "svg" => mgMerged[i] = mgTraditional[i]
             /\ mgMerged[i].source = "svg_ai_enhanced" =>
                   /\ mgMerged[i].ai_idx \in 1..Len(mgRegions)
                   /\ mgMerged[i].bbox = mgRegions[mgMerged[i].ai_idx].bbox
                   /\ IoUAboveHalf(mgTraditional[i].bbox,
                                   mgRegions[mgMerged[i].ai_idx].bbox)
                   /\ ~(mgTraditional[i].bbox = BoxA
                          /\ mgRegions[mgMerged[i].ai_idx].bbox = BoxB)

\* the primary [0,0,10,10] met the region [5,5,15,15] and a region of IoU
\* exactly 0.5, and a zero-area primary met a zero-area region; none merged
C10_Witness ==
    /\ mgDone
    /\ \E i, j \in 1..Len(mgTraditional), r, q \in 1..Len(mgRegions) :
          /\ mgTraditional[i].bbox = BoxA
          /\ mgRegions[r].bbox = BoxB
          /\ mgRegions[q].bbox = BoxF
          /\ mgMerged[i] = mgTraditional[i]
          /\ mgTraditional[j].bbox = BoxZ
          /\ mgMerged[j] = mgTraditional[j]

\* the outputs region r contributed to
OutputsOf(r) == {i \in 1..Len(mgMerged) : mgMerged[i].ai_idx = r}

\* C11: reconciliation neither duplicates nor drops input: the i-th output is
\* the one fragment of the i-th primary (merged or passed through), every
\* later output is a standalone region, and every region contributes to at
\* most one output.
C11_NoDuplicationNoLoss ==
    mgDone =>
       /\ Len(mgMerged) >= Len(mgTraditional)
       /\ \A i \in 1..Len(mgTraditional) :
             /\ mgMerged[i].text = mgTraditional[i].text
             /\ \/ mgMerged[i] = mgTraditional[i]
                \/ /\ mgMerged[i].source = "svg_ai_enhanced"
                   /\ mgMerged[i].ai_idx \in 1..Len(mgRegions)
       /\ \A i \in (Len(mgTraditional) + 1)..Len(mgMerged) :
             /\ mgMerged[i].source = "ai_only"
             /\ mgMerged[i].ai_idx \in 1..Len(mgRegions)
       /\ \A r \in 1..Len(mgRegions) : Cardinality(OutputsOf(r)) <= 1

\* two primaries met two regions that both overlap them above 0.5: each
\* primary took its own region
C11_Witness ==
    /\ mgDone
    /\ Len(mgTraditional) = 2
    /\ Len(mgRegions) = 2
    /\ \A i \in 1..2, r \in 1..2 :
          IoUAboveHalf(mgTraditional[i].bbox, mgRegions[r].bbox)
    /\ mgMerged[1].source = "svg_ai_enhanced"
    /\ mgMerged[2].source = "svg_ai_enhanced"

\* C12: merge(primary, []) returns primary: the same fragments in the same
\* order, every field unchanged.
C12_MergeWithNoRegionsIsIdentity ==
    (mgDone /\ mgRegions = <<>>) => mgMerged = mgTraditional

\* two different primaries were merged with an empty region list
C12_Witness ==
    /\ mgDone
    /\ mgRegions = <<>>
    /\ Len(mgTraditional) = 2
    /\ mgTraditional[1] # mgTraditional[2]

\* the regions merged into a primary
MergedRegions == {mgMerged[i].ai_idx : i \in 1..Len(mgTraditional)}

\* the regions left over that are verses
StandaloneRegions ==
    {r \in 1..Len(mgRegions) : r \notin MergedRegions /\ mgRegions[r].text_type = "ayah"}

\* C13: after the primaries, the output holds exactly the regions that were
\* merged into no primary and are of type 'ayah', in region order, each as a
\* standalone fragment with the region's own text (empty when it has none),
\* bbox and confidence; no other unmatched region is appended.
C13_UnmatchedVerseRegionsAppended ==
    mgDone =>
       LET tail == SubSeq(mgMerged, Len(mgTraditional) + 1, Len(mgMerged))
       IN  /\ Len(tail) = Cardinality(StandaloneRegions)
           /\ \A k \in 1..Len(tail) :
                 /\ tail[k].ai_idx \in StandaloneRegions
                 /\ tail[k].source = "ai_only"
                 /\ tail[k].bbox = mgRegions[tail[k].ai_idx].bbox
                 /\ tail[k].confidence = mgRegions[tail[k].ai_idx].confidence
                 /\ tail[k].text = IF mgRegions[tail[k].ai_idx].text = NoneText
                                   THEN <<>> ELSE mgRegions[tail[k].ai_idx].text
                 /\ k < Len(tail) => tail[k].ai_idx < tail[k + 1].ai_idx

\* a primary passed through while an unmatched decoration and an unmatched
\* verse region without text were left: only the verse region was appended
C13_Witness ==
    /\ mgDone
    /\ Len(mgTraditional) >= 1
    /\ Len(mgRegions) = 2
    /\ mgRegions[1].text_type = "decoration"
    /\ mgRegions[2].text_type = "ayah"
    /\ mgRegions[2].text = NoneText
    /\ MergedRegions = {-1}
    /\ Len(mgMerged) = Len(mgTraditional) + 1
    /\ mgMerged[Len(mgMerged)].text = <<>>

(***************************************************************************)
(* process_page with the AI analyzer (AIAnalyzer.analyze_page and its      *)
(* retries), for one page whose SVG file exists                            *)
(*                                                                         *)
(* ai.pc follows the call process_page(AiPage):                            *)
(*   "svg"        before extract_from_svg_with_ai                          *)
(*   "preprocess" in analyze_page_async, before _preprocess_image          *)
(*   "type"       at the head of the loop over analysis_types              *)
(*   "request"    in _analyze_with_ai, before client.chat.completions.create *)
(*   "waiting"    inside the call of create                                *)
(*   "sleep"      in asyncio.sleep(rate_limit_delay)                       *)
(*   "combine"    before _merge_analysis_results                           *)
(*   "check"      before the test of an empty extracted_texts              *)
(*   "done"       process_page has returned                                *)
(*   "returned"   process_pages has returned                               *)
(***************************************************************************)
\* AIAnalyzer.max_retries
max_retries == 3

\* AIAnalyzer.rate_limit_delay
rate_limit_delay == 2

\* process_page: self.ai_analyzer and len(extracted_texts) < 3
ai_direct_below == 3

\* the analysis types process_page and extract_from_svg_with_ai ask for
analysis_types == <<"text_regions", "ayah_detection">>

AiPage == 1

\* config['min_similarity'] of the run: the default 0.3
AiMinSimilarity == 300 * D

\* the regions a cached text_regions analysis holds
CachedRegions ==
    <<TextRegion(BoxC, <<"meem">>, 80, "ayah"),
      TextRegion(BoxB, NoneText, 80, "decoration"),
      TextRegion(BoxB, <<"ba", "meem">>, 80, "ayah")>>

\* what an attempt that the detector answers can end in: an exception (of
\* the client, or of json.loads), the answer {} or an answer with keys
Outcomes == {"error", "empty", "malformed"}

\* match_ayat_with_texts from the pos-th verse of the page on
RECURSIVE match_rows(_, _, _, _, _, _)
match_rows(page_num, rows, pos, extracted_texts, used_texts, matches) ==
    IF pos > Len(rows) THEN matches
    ELSE LET best == best_candidate(rows[pos], extracted_texts, used_texts,
                                    AiMinSimilarity)
         IN  IF best.best_text_idx # -1
             THEN match_rows(page_num, rows, pos + 1, extracted_texts,
                             used_texts \cup {best.best_text_idx},
                             Append(matches, MatchedAyah(page_num, rows[pos],
                                                         extracted_texts, best)))
             ELSE match_rows(page_num, rows, pos + 1, extracted_texts,
                             used_texts, matches)

\* match_ayat_with_texts(self.hafs_data, extracted_texts, page_num)
match_ayat_with_texts(extracted_texts, page_num) ==
    match_rows(page_num, page_ayat(page_num), 1, extracted_texts, {}, <<>>)

\* process_page: the ExtractedText appended for an 'ayah' region
ai_direct_text(region) ==
    [text |-> text_or_empty(region.text), bbox |-> region.bbox, source |-> "ai_direct",
     confidence |-> region.confidence, ai_text_type |-> "none", ai_idx |-> -1]

\* process_page: the loop over ai_analysis.text_regions
RECURSIVE ai_direct_texts(_, _)
ai_direct_texts(text_regions, idx) ==
    IF idx > Len(text_regions) THEN <<>>
    ELSE (IF text_regions[idx].text_type = "ayah"
          THEN <<ai_direct_text(text_regions[idx])>> ELSE <<>>)
         \o ai_direct_texts(text_regions, idx + 1)

\* analyze_page_async: the locals at entry
EnterAnalysis(a, caller) ==
    [a EXCEPT !.pc = "preprocess", !.caller = caller, !.type_idx = 1, !.attempt = 0,
              !.attempts = [t \in {"text_regions", "ayah_detection"} |-> 0],
              !.sleeps = [t \in {"text_regions", "ayah_detection"} |-> <<>>],
              !.results = [t \in {"text_regions", "ayah_detection"} |-> "unset"]]

\* process_page after the SVG stage: the PDF stage, then the test of the AI
\* direct stage
AfterSvg(a, svg_texts, enhanced) ==
    LET with_svg == [a EXCEPT !.svg_texts = svg_texts, !.svg_returned = TRUE,
                              !.svg_results = a.results,
                              !.stats.ai_enhanced_pages = @ + (IF enhanced THEN 1 ELSE 0),
                              !.stats.svg_pages = @ + 1]
        with_pdf == IF Len(svg_texts) < pdf_fallback_below /\ aiEnv.pdf_path
                    THEN [with_svg EXCEPT !.extracted_texts = svg_texts \o BookPdfLines(AiPage),
                                          !.stats.pdf_pages = @ + 1]
                    ELSE [with_svg EXCEPT !.extracted_texts = svg_texts]
    IN  IF Len(with_pdf.extracted_texts) < ai_direct_below
        THEN EnterAnalysis(with_pdf, "direct")
        ELSE [with_pdf EXCEPT !.pc = "check"]

\* the except branch that drops the traditional texts
AnalysisRaised_dropping(a) ==
    IF a.caller = "svg"
    THEN AfterSvg(a, <<>>, FALSE)
    ELSE [a EXCEPT !.pc = "check", !.direct_results = a.results]

\* analyze_page raised: the except branch of the caller
AnalysisRaised(a) ==
    IF a.caller = "svg"
    THEN AfterSvg(a, a.traditional_texts, FALSE)
    ELSE [a EXCEPT !.pc = "check", !.direct_results = a.results]

\* analyze_page returned a PageAnalysis with these regions
AnalysisReturned(a, text_regions) ==
    IF a.caller = "svg"
    THEN AfterSvg(a, merge_ai_results(a.traditional_texts, text_regions), TRUE)
    ELSE [a EXCEPT !.pc = "check", !.direct_results = a.results,
                   !.extracted_texts = @ \o ai_direct_texts(text_regions, 1),
                   !.stats.ai_direct_pages = @ + 1]

\* extract_from_svg_with_ai: the traditional extraction, then analyze_page
AiExtractSvg ==
    /\ ai.pc = "svg"
    /\ ai' = EnterAnalysis([ai EXCEPT !.traditional_texts = aiEnv.svg_lines], "svg")
    /\ UNCHANGED <<aiEnv, scoreVars, pipeVars, mergeVars, loadVars, restVars>>

\* analyze_page_async: _preprocess_image opens the page file as an image
AiPreprocess ==
    /\ ai.pc = "preprocess"
    /\ ai' = IF aiEnv.image_ok THEN [ai EXCEPT !.pc = "type"] ELSE AnalysisRaised(ai)
    /\ UNCHANGED <<aiEnv, scoreVars, pipeVars, mergeVars, loadVars, restVars>>

\* analyze_page_async: the head of the loop, and the cache
AiNextType ==
    /\ ai.pc = "type"
    /\ ai' = IF ai.type_idx > Len(analysis_types) THEN [ai EXCEPT !.pc = "combine"]
             ELSE LET t == analysis_types[ai.type_idx]
                  IN  IF ai.cache[t] # "absent"
                      THEN [ai EXCEPT !.results[t] = ai.cache[t], !.type_idx = @ + 1]
                      ELSE [ai EXCEPT !.pc = "request", !.attempt = 0]
    /\ UNCHANGED <<aiEnv, scoreVars, pipeVars, mergeVars, loadVars, restVars>>

\* _analyze_with_ai: the request is sent
AiRequest ==
    /\ ai.pc = "request"
    /\ ai' = [ai EXCEPT !.pc = "waiting",
                        !.attempts[analysis_types[ai.type_idx]] = @ + 1]
    /\ UNCHANGED <<aiEnv, scoreVars, pipeVars, mergeVars, loadVars, restVars>>

\* _analyze_with_ai: create returns or raises; nothing in the call bounds the
\* wait, so a detector that stays silent leaves the call where it is
AiRespond(outcome) ==
    /\ ai.pc = "waiting"
    /\ aiEnv.detector = "responsive"
    /\ LET t == analysis_types[ai.type_idx]
       IN  ai' = IF outcome # "error"
                 THEN [ai EXCEPT !.pc = "type", !.results[t] = outcome,
                                 !.cache[t] = outcome, !.type_idx = @ + 1]
                 ELSE IF ai.attempt < max_retries - 1
                 THEN [ai EXCEPT !.pc = "sleep"]
                 ELSE [ai EXCEPT !.pc = "type", !.results[t] = "None",
                                 !.type_idx = @ + 1]
    /\ UNCHANGED <<aiEnv, scoreVars, pipeVars, mergeVars, loadVars, restVars>>

\* _analyze_with_ai: await asyncio.sleep(self.rate_limit_delay)
AiSleep ==
    /\ ai.pc = "sleep"
    /\ ai' = [ai EXCEPT !.pc = "request", !.attempt = @ + 1,
                        !.sleeps[analysis_types[ai.type_idx]] =
                            Append(@, rate_limit_delay)]
    /\ UNCHANGED <<aiEnv, scoreVars, pipeVars, mergeVars, loadVars, restVars>>

\* _merge_analysis_results: the loop over results['text_regions'] raises on
\* None and on the keys of a dict that is not empty
AiCombine ==
    /\ ai.pc = "combine"
    /\ ai' = CASE ai.results["text_regions"] = "empty"   -> AnalysisReturned(ai, <<>>)
               [] ai.results["text_regions"] = "regions" -> AnalysisReturned(ai, CachedRegions)
               [] OTHER                                  -> AnalysisRaised(ai)
    /\ UNCHANGED <<aiEnv, scoreVars, pipeVars, mergeVars, loadVars, restVars>>

\* process_page: if not extracted_texts: return []; else the matcher is
\* called on extracted_texts (what it returns is AiMatches)
AiCheckAndMatch ==
    /\ ai.pc = "check"
    /\ ai' = IF ai.extracted_texts = <<>>
             THEN [ai EXCEPT !.pc = "done"]
             ELSE [ai EXCEPT !.pc = "done", !.matched = TRUE,
                             !.stats.total_pages = @ + 1]
    /\ UNCHANGED <<aiEnv, scoreVars, pipeVars, mergeVars, loadVars, restVars>>

\* process_page: matches, the list process_pages then returns
AiMatches ==
    IF ai.matched THEN match_ayat_with_texts(ai.extracted_texts, AiPage) ELSE <<>>

\* process_pages: return all_matches
AiReturnAll ==
    /\ ai.pc = "done"
    /\ ai' = [ai EXCEPT !.pc = "returned"]
    /\ UNCHANGED <<aiEnv, scoreVars, pipeVars, mergeVars, loadVars, restVars>>

AiNext ==
    \/ AiExtractSvg
    \/ AiPreprocess
    \/ AiNextType
    \/ AiRequest
    \/ \E outcome \in Outcomes : AiRespond(outcome)
    \/ AiSleep
    \/ AiCombine
    \/ AiCheckAndMatch
    \/ AiReturnAll

\* the lines the SVG file of the page can hold
AiSvgLines ==
    {<<>>,
     <<TraditionalText(<<"ba", "meem">>, BoxA, 100)>>,
     <<TraditionalText(<<"ba", "fatha">>, BoxA, 100),
       TraditionalText(<<"ba", "meem">>, BoxC, 50),
       TraditionalText(<<"meem">>, BoxZ, 50)>>}

AiInit ==
    /\ aiEnv \in [svg_lines : AiSvgLines, image_ok : BOOLEAN,
                  detector : {"responsive", "silent"}, pdf_path : BOOLEAN]
    /\ \E cache \in [{"text_regions", "ayah_detection"} -> {"absent", "regions"}] :
          ai = [pc |-> "svg", caller |-> "svg", traditional_texts |-> <<>>,
                svg_texts |-> <<>>, svg_returned |-> FALSE, extracted_texts |-> <<>>,
                type_idx |-> 1, attempt |-> 0,
                attempts |-> [t \in {"text_regions", "ayah_detection"} |-> 0],
                sleeps |-> [t \in {"text_regions", "ayah_detection"} |-> <<>>],
                results |-> [t \in {"text_regions", "ayah_detection"} |-> "unset"],
                svg_results |-> [t \in {"text_regions", "ayah_detection"} |-> "unset"],
                direct_results |-> [t \in {"text_regions", "ayah_detection"} |-> "unset"],
                cache |-> cache, matched |-> FALSE,
                stats |-> [ai_enhanced_pages |-> 0, ai_direct_pages |-> 0,
                           svg_pages |-> 0, pdf_pages |-> 0, total_pages |-> 0]]
    /\ ScoreIdle
    /\ PipeIdle
    /\ MergeIdle
    /\ LoadIdle
    /\ RestIdle

SpecAi == AiInit /\ [][AiNext]_vars

\* the scheduler runs the one thread of the run whenever it can take a step
SpecAiLive == SpecAi /\ WF_vars(AiNext)

(***************************************************************************)
(* Claims about the region detector (specifications SpecAi, SpecAiLive)    *)
(***************************************************************************)
\* every request of an analysis failed on every attempt
Exhausted(results) == \A t \in DOMAIN results : results[t] = "None"

\* what process_page extracts without the detector: the SVG lines and, when
\* they are few and a PDF is configured, the PDF lines
NonReconciled ==
    IF Len(aiEnv.svg_lines) < pdf_fallback_below /\ aiEnv.pdf_path
    THEN aiEnv.svg_lines \o BookPdfLines(AiPage)
    ELSE aiEnv.svg_lines

C15_RunEventuallyReturns == <>(ai.pc = "returned")

(***************************************************************************)
(* AyatExtractor._load_hafs_data and the column reads of the run           *)
(*                                                                         *)
(* ld.pc follows main(): "init" before AyatExtractor(config), "aborted"    *)
(* when the constructor raised, "loaded" while process_pages runs,         *)
(* "returned" after it.  ld.pages[p] is what page p came to.               *)
(***************************************************************************)
\* the columns the run reads from the corpus file
CorpusColumns ==
    {"sura_no", "sura_name_ar", "sura_name_en", "aya_no", "aya_text",
     "aya_text_emlaey", "page"}

\* _load_hafs_data: the columns it reads, df['aya_text'] and
\* df['aya_text_emlaey']
load_reads == {"aya_text", "aya_text_emlaey"}

\* match_ayat_with_texts: the columns read before a candidate is scored
scan_reads == {"page", "aya_text", "text_clean", "aya_no"}

\* match_ayat_with_texts: the columns read when a MatchedAyah is built
match_reads == {"sura_no", "sura_name_ar", "sura_name_en"}

\* _load_hafs_data adds text_normalized and text_clean to the frame
loaded_columns == ldColumns \cup {"text_normalized", "text_clean"}

\* the constructor: pd.read_csv, then the reads of _load_hafs_data; a
\* KeyError is logged and raised again
LoadHafsData ==
    /\ ld.pc = "init"
    /\ ld' = IF ld.readable /\ load_reads \subseteq ldColumns
             THEN [ld EXCEPT !.pc = "loaded"]
             ELSE [ld EXCEPT !.pc = "aborted"]
    /\ UNCHANGED <<ldColumns, scoreVars, pipeVars, mergeVars, aiVars, restVars>>

\* process_pages: the next page; texts says whether the page yields lines
\* and accepted whether a line reaches the threshold for its first verse; a
\* KeyError of a column read is caught by process_pages
LoadProcessPage(p, texts, accepted) ==
    /\ ld.pc = "loaded"
    /\ ld.pages[p] = "pending"
    /\ \A q \in Pages : q < p => ld.pages[q] # "pending"
    /\ ld' = [ld EXCEPT !.pages[p] =
                 IF ~texts THEN "empty"
                 ELSE IF ~(scan_reads \subseteq loaded_columns) THEN "failed"
                 ELSE IF ~accepted THEN "unmatched"
                 ELSE IF ~(match_reads \subseteq loaded_columns) THEN "failed"
                 ELSE "matched"]
    /\ UNCHANGED <<ldColumns, scoreVars, pipeVars, mergeVars, aiVars, restVars>>

\* process_pages: return all_matches
LoadReturnAll ==
    /\ ld.pc = "loaded"
    /\ \A p \in Pages : ld.pages[p] # "pending"
    /\ ld' = [ld EXCEPT !.pc = "returned"]
    /\ UNCHANGED <<ldColumns, scoreVars, pipeVars, mergeVars, aiVars, restVars>>

LoadNext ==
    \/ LoadHafsData
    \/ \E p \in Pages, texts \in BOOLEAN, accepted \in BOOLEAN :
          LoadProcessPage(p, texts, accepted)
    \/ LoadReturnAll

LoadInit ==
    /\ ldColumns \in SUBSET CorpusColumns
    /\ \E readable \in BOOLEAN :
          ld = [pc |-> "init", readable |-> readable,
                pages |-> [p \in Pages |-> "pending"]]
    /\ ScoreIdle
    /\ PipeIdle
    /\ MergeIdle
    /\ AiIdle
    /\ RestIdle

SpecLoad == LoadInit /\ [][LoadNext]_vars

(***************************************************************************)
(* Claims about the corpus loader (specification SpecLoad)                 *)
(***************************************************************************)
\* the columns the corpus must have
RequiredColumns ==
    {"sura_no", "sura_name_ar", "sura_name_en", "aya_no", "aya_text", "page"}

\* C16: when any required column (sura number, both sura names, verse
\* number, verse text, page number) is absent, loading the corpus raises and
\* the run aborts before any page is processed.
C16_MissingColumnAbortsLoad ==
    (ld.pc # "init" /\ ~(RequiredColumns \subseteq ldColumns)) =>
       /\ ld.pc = "aborted"
       /\ \A p \in Pages : ld.pages[p] = "pending"

(***************************************************************************)
(* AyatExtractor.generate_report and the report of main()                  *)
(***************************************************************************)
\* generate_report: similarity < 0.4
poor_below == 400 * D

\* generate_report: page_stats[page], counted over the matches
page_stats(matches, page) ==
    [total |-> Cardinality({i \in 1..Len(matches) : matches[i].page = page}),
     poor  |-> Cardinality({i \in 1..Len(matches) :
                               /\ matches[i].page = page
                               /\ matches[i].similarity < poor_below})]

\* generate_report: the pages of pages_with_issues, those of page_stats
\* with poor / total > 0.2
pages_with_issues(matches) ==
    {page \in Pages : /\ page_stats(matches, page).total > 0
                      /\ 5 * page_stats(matches, page).poor >
                            page_stats(matches, page).total}

\* generate_report(matches)
generate_report(matches) ==
    IF matches = <<>>
    THEN [error |-> TRUE, pages_with_issues |-> {}]
    ELSE [error |-> FALSE, pages_with_issues |-> pages_with_issues(matches)]

\* main: the pages the report of the run lists; without matches main prints
\* that nothing was extracted and builds no report
reported_pages ==
    IF returned /\ all_matches # <<>>
    THEN generate_report(all_matches).pages_with_issues
    ELSE {}

(***************************************************************************)
(* Claims about the outcome of a run (specification SpecMatch)             *)
(***************************************************************************)
\* the verses registered for the pages of the range
VersesInRange == {i \in 1..Len(hafs_rows) : hafs_rows[i].page \in RangePages}

\* C17: with the threshold at 1.1 no MatchedAyah is ever built, and when
\* process_pages has returned from pages that all completed, its result is
\* empty and every verse of the range has been counted unmatched.
C17_UnreachableThresholdAllUnmatched ==
    cfg.min_similarity = 1100 * D =>
       /\ \A p \in Pages : task[p].matches = <<>>
       /\ all_matches = <<>>
       /\ (returned /\ \A p \in RangePages : task[p].pc = "done") =>
             stats["unmatched"] = Cardinality(VersesInRange)

\* the verses of a page that have no record, or a record of similarity
\* below 0.4
ProblemVerses(page) ==
    (Cardinality(RegisteredVerses(page)) - Cardinality(RecordsOfPage(page)))
       + Cardinality({i \in RecordsOfPage(page) : all_matches[i].similarity < poor_below})

\* C18: after a run, every processed page of which more than 20% of the
\* verses are unmatched or matched with similarity below 0.4 is listed in
\* the report.
C18_ProblemPagesReported ==
    returned =>
       \A p \in RangePages :
          (/\ task[p].pc = "done"
           /\ 5 * ProblemVerses(p) > Cardinality(RegisteredVerses(p)))
          => p \in reported_pages

(***************************************************************************)
(* Specification of the verse-number bonus: a verse is scored against a    *)
(* line, and then against the same line with the verse's number written    *)
(* into it at any place.                                                   *)
(***************************************************************************)
\* t with the character c written in after its first k characters
WriteIn(t, k, c) == SubSeq(t, 1, k) \o <<c>> \o SubSeq(t, k + 1, Len(t))

\* the call _calculate_match_score for the line with the number written in
ScoreWithNumber ==
    /\ scResult # NotScored
    /\ Len(scExt) <= MaxLen
    /\ \E k \in 0..Len(scExt), c \in AllDigits :
          /\ DigitValue(c) = scAya
          /\ scExt' = WriteIn(scExt, k, c)
          /\ scResult' = calculate_match_score(scRef, clean_text(scRef),
                                               WriteIn(scExt, k, c), scAya)
    /\ UNCHANGED <<scRef, scAya, pipeVars, mergeVars, aiVars, loadVars, restVars>>

BonusNext == CalculateMatchScore \/ ScoreWithNumber

SpecBonus == ScoreInit /\ [][BonusNext]_vars

(***************************************************************************)
(* Claims about the verse-number bonus (specification SpecBonus)           *)
(***************************************************************************)
\* u is t with the one-digit number n written into it at some place
WithNumber(t, u, n) ==
    \E k \in 0..Len(t), c \in AllDigits :
        /\ DigitValue(c) = n
        /\ u = WriteIn(t, k, c)

\* the step rescored the verse against the same line with the verse's own
\* number added, which the line did not hold before
NumberAdded ==
    /\ RescoredStep
    /\ scRef' = scRef
    /\ WithNumber(scExt, scExt', scAya)
    /\ scAya \notin VerseValues(scExt)
    /\ scAya \in VerseValues(scExt')

\* C19 as stated: of two candidate lines that differ only in that one also
\* holds the verse's number, the one with the number scores strictly higher.
C19_VerseNumberRaisesScore ==
    [][NumberAdded => scResult' > scResult]_vars

\* C19 amended: of two candidate lines that differ only in that one also
\* holds the verse's number, and that clean to the same text (the number
\* stands where cleaning leaves no trace of it: at an end of the line, or
\* beside a space, a diacritic or another number's place), the one with the
\* number scores strictly higher, unless the one without already scores 1.0.
C19_VerseNumberRaisesScoreBelowCap ==
    [][(/\ NumberAdded
        /\ clean_text(scExt') = clean_text(scExt)
        /\ scResult < Unit) => scResult' > scResult]_vars

\* a line scored with the verse's number written into it, which cleans to
\* the same text as the line without the number, the latter scoring below 1.0
C19_Witness ==
    /\ Scored
    /\ Len(scExt) = MaxLen + 1
    /\ scAya \in VerseValues(scExt)
    /\ \E t \in Texts :
          /\ WithNumber(t, scExt, scAya)
          /\ scAya \notin VerseValues(t)
          /\ clean_text(t) = clean_text(scExt)
          /\ clean_text(t) # <<>>
          /\ calculate_match_score(scRef, clean_text(scRef), t, scAya) < Unit
          /\ calculate_match_score(scRef, clean_text(scRef), t, scAya) > 0

(***************************************************************************)
(* Claims about the range of the score (specification SpecScore)           *)
(***************************************************************************)
\* the similarity and the two bonuses of the scored pair, summed
ScoreSum == calculate_match_score_uncapped(scRef, clean_text(scRef), scExt, scAya)

\* C20: for every candidate text, reference text and verse number, empty
\* texts included, the score lies within [0, 1]: the weighted similarity
\* plus the verse-number and symbol bonuses is never negative and is capped
\* at 1.0.
C20_ScoreWithinUnitInterval ==
    Scored =>
       /\ 0 <= scResult
       /\ scResult <= Unit
       /\ ScoreSum >= 0
       /\ ScoreSum <= Unit => scResult = ScoreSum
       /\ ScoreSum > Unit => scResult = Unit

\* a scored pair whose similarity and bonuses sum to more than 1.0
C20_Witness ==
    /\ Scored
    /\ ScoreSum > Unit
    /\ scResult = Unit

(***************************************************************************)
(* AdvancedTextProcessor.normalize_text at every level                     *)
(***************************************************************************)
\* the longest text given to normalize_text
MaxNormLen == 3

\* U+0628 ba; U+0623 alef with hamza and U+0671 alef wasla, both rewritten
\* to U+0627; U+0621 hamza, rewritten to nothing; U+064E fatha; U+FE76 the
\* isolated form of fatha, which NFKC decomposes into a space and U+064E;
\* the space
NormChars == {"ba", "alefHamza", "alefWasla", "hamza", "fatha", "fathaForm", "sp"}

\* the characters of DIACRITIC_RANGES: U+0671 closes the range (0x0670, 0x0671)
diacritic_pattern == DiacriticChars \cup {"alefWasla"}

\* unicodedata.normalize('NFKC', c)
nfkc(c) == IF c = "fathaForm" THEN <<"sp", "fatha">> ELSE <<c>>

\* what the loop over all_normalizations leaves of one character
all_normalizations(c) ==
    IF c \in {"alefHamza", "alefWasla"} THEN <<"alef">>
    ELSE IF c = "hamza" THEN <<>>
    ELSE <<c>>

\* the characters the pattern of the aggressive level keeps:
\* U+0621..U+064A, U+0671..U+06D3 and white space
aggressive_keeps(c) == c \in {"hamza", "alefHamza", "alef", "ba", "alefWasla", "sp"}

\* unicodedata.normalize('NFKC', text), character by character
RECURSIVE nfkc_text(_)
nfkc_text(text) ==
    IF text = <<>> THEN <<>> ELSE nfkc(Head(text)) \o nfkc_text(Tail(text))

\* for old, new in self.all_normalizations.items(): text = text.replace(old, new)
RECURSIVE replace_all(_)
replace_all(text) ==
    IF text = <<>> THEN <<>>
    ELSE all_normalizations(Head(text)) \o replace_all(Tail(text))

levels == {"minimal", "basic", "full", "aggressive"}

\* normalize_text with the diacritics removed first, before NFKC and the
\* substitutions
normalize_text_strip_first(text, level) ==
    IF text = <<>> THEN <<>>
    ELSE LET t0 == IF level \in {"full", "aggressive"}
                   THEN RemoveChars(text, diacritic_pattern) ELSE text
             t1 == nfkc_text(t0)
             t2 == IF level \in {"basic", "full", "aggressive"}
                   THEN replace_all(t1) ELSE t1
             t4 == IF level = "aggressive"
                   THEN ReplaceRuns([i \in 1..Len(t2) |->
                                        IF aggressive_keeps(t2[i]) THEN t2[i] ELSE "sp"],
                                    SpaceChars, "sp")
                   ELSE t2
         IN  IF level = "minimal" THEN t1 ELSE Strip(t4)

\* normalize_text(text, level)
normalize_text(text, level) ==
    IF text = <<>> THEN <<>>
    ELSE LET t1 == nfkc_text(text)
             t2 == IF level \in {"basic", "full", "aggressive"}
                   THEN replace_all(t1) ELSE t1
             t3 == IF level \in {"full", "aggressive"}
                   THEN RemoveChars(t2, diacritic_pattern) ELSE t2
             t4 == IF level = "aggressive"
                   THEN ReplaceRuns([i \in 1..Len(t3) |->
                                        IF aggressive_keeps(t3[i]) THEN t3[i] ELSE "sp"],
                                    SpaceChars, "sp")
                   ELSE t3
         IN  IF level = "minimal" THEN t1 ELSE Strip(t4)

NormTexts == UNION {[1..n -> NormChars] : n \in 0..MaxNormLen}

NormInit ==
    /\ nmText \in NormTexts
    /\ nmLevel \in levels
    /\ nmResult = NoneText
    /\ ScoreIdle
    /\ PipeIdle
    /\ MergeIdle
    /\ AiIdle
    /\ LoadIdle
    /\ OrderIdle
    /\ LineIdle
    /\ StageIdle

\* the call normalize_text(text, level)
NormalizeText ==
    /\ nmResult = NoneText
    /\ nmResult' = normalize_text(nmText, nmLevel)
    /\ UNCHANGED <<nmText, nmLevel, scoreVars, pipeVars, mergeVars, aiVars, loadVars,
                   orderVars, lineVars, stageVars>>

\* the call for the text just returned (a cache miss unless it is the same text)
NormalizeResult ==
    /\ nmResult # NoneText
    /\ nmResult # nmText
    /\ nmText' = nmResult
    /\ nmResult' = normalize_text(nmResult, nmLevel)
    /\ UNCHANGED <<nmLevel, scoreVars, pipeVars, mergeVars, aiVars, loadVars,
                   orderVars, lineVars, stageVars>>

NormNext == NormalizeText \/ NormalizeResult

SpecNorm == NormInit /\ [][NormNext]_vars

(***************************************************************************)
(* Claims about normalize_text (specification SpecNorm)                    *)
(***************************************************************************)
\* C21: for every text, the text normalized at level 'full' holds no
\* character of the diacritic ranges, whether the character was in the
\* input, came out of the Unicode normalization, or is the target of a
\* substitution.
C21_FullHasNoDiacritic ==
    (nmResult # NoneText /\ nmLevel = "full")
        => \A i \in 1..Len(nmResult) : nmResult[i] \notin diacritic_pattern

\* a text at level 'full' with a diacritic produced by the Unicode
\* normalization and a character that is both a substitution source and in
\* the diacritic ranges, normalized to a non-empty text
C21_Witness ==
    /\ nmLevel = "full"
    /\ nmResult # NoneText
    /\ nmResult # <<>>
    /\ \E i \in 1..Len(nmText) : nmText[i] = "fathaForm"
    /\ \E i \in 1..Len(nmText) : nmText[i] = "alefWasla"

(***************************************************************************)
(* Claims about the selection of a candidate (specification SpecMatch)     *)
(***************************************************************************)
\* the candidates of page p not yet used when the turn begins
Unused(p) == (1..Len(task[p].texts)) \ task[p].used

\* the score of candidate i of page p for the verse of the turn
TurnScore(p, i) ==
    LET aya_row == page_ayat(p)[task[p].pos]
    IN  calculate_match_score(aya_row.aya_text, aya_row.text_clean,
                              task[p].texts[i].text, aya_row.aya_no)

\* candidate i is a maximum-scoring unused candidate
IsMaximum(p, i) ==
    /\ i \in Unused(p)
    /\ \A j \in Unused(p) : TurnScore(p, j) <= TurnScore(p, i)

\* the turn appended a MatchedAyah for the verse, for a maximum-scoring
\* unused candidate, and marked that candidate used
EmitsMaximum(p) ==
    /\ Len(task'[p].matches) = Len(task[p].matches) + 1
    /\ LET m == task'[p].matches[Len(task'[p].matches)]
       IN  /\ IsMaximum(p, m.text_idx)
           /\ m.similarity = TurnScore(p, m.text_idx)
           /\ m.aya_no = page_ayat(p)[task[p].pos].aya_no
           /\ task'[p].used = task[p].used \cup {m.text_idx}
    /\ task'[p].key = "matched"

\* the turn appended nothing, used nothing and counts the verse unmatched
CountsUnmatched(p) ==
    /\ task'[p].matches = task[p].matches
    /\ task'[p].used = task[p].used
    /\ task'[p].key = "unmatched"

\* C22 as stated: for each verse of a page the matcher takes the
\* maximum-scoring unused candidate and emits a MatchedAyah for it, marking
\* it used, exactly when that maximum is at least min_similarity, for every
\* threshold, 0 included; otherwise the verse is counted unmatched.
C22_EmitsIffMaximumReachesThreshold ==
    [][\A p \in Pages :
          MatchTurn(p) =>
             IF \E i \in Unused(p) : IsMaximum(p, i) /\ TurnScore(p, i) >= cfg.min_similarity
             THEN EmitsMaximum(p)
             ELSE CountsUnmatched(p)]_vars

\* the same for a maximum that is also above zero: what the code does
C22_EmitsIffPositiveMaximumReachesThreshold ==
    [][\A p \in Pages :
          MatchTurn(p) =>
             IF \E i \in Unused(p) : /\ IsMaximum(p, i)
                                     /\ TurnScore(p, i) >= cfg.min_similarity
                                     /\ TurnScore(p, i) > 0
             THEN EmitsMaximum(p)
             ELSE CountsUnmatched(p)]_vars

(***************************************************************************)
(* match_ayat_with_texts on a corpus file whose rows stand in any order    *)
(***************************************************************************)
\* the sequences that hold the elements of s once each, in any order
Orderings(s) ==
    {[i \in 1..Len(s) |-> s[f[i]]] :
        f \in {g \in [1..Len(s) -> 1..Len(s)] :
                 \A i, j \in 1..Len(s) : i # j => g[i] # g[j]}}

\* ayat_df[ayat_df['page'] == page_num] for the corpus of the call
od_page_ayat == SelectSeq(odRows, LAMBDA row : row.page = od.page)

OrderInit ==
    /\ odRows \in Orderings(hafs_data)
    /\ \E page \in Pages, m \in MinSimilarities, texts \in CandidateLists :
          od = [pc |-> "match", page |-> page, min_similarity |-> m,
                texts |-> texts, pos |-> 1, used |-> {}, matches |-> <<>>,
                evaluated |-> <<>>]
    /\ ScoreIdle
    /\ PipeIdle
    /\ MergeIdle
    /\ AiIdle
    /\ LoadIdle
    /\ NormIdle
    /\ LineIdle
    /\ StageIdle

\* one turn of the loop for idx, aya_row in page_ayat.iterrows()
OrderMatchAya ==
    /\ od.pc = "match"
    /\ od.pos <= Len(od_page_ayat)
    /\ LET aya_row == od_page_ayat[od.pos]
           best    == best_candidate(aya_row, od.texts, od.used, od.min_similarity)
           next    == [od EXCEPT !.pos = @ + 1,
                                 !.evaluated = Append(@, <<aya_row.sura_no, aya_row.aya_no>>)]
       IN  IF best.best_text_idx # -1
           THEN od' = [next EXCEPT
                          !.used = @ \cup {best.best_text_idx},
                          !.matches = Append(@, MatchedAyah(od.page, aya_row, od.texts, best))]
           ELSE od' = next
    /\ UNCHANGED <<odRows, scoreVars, pipeVars, mergeVars, aiVars, loadVars,
                   normVars, lineVars, stageVars>>

\* return matches
OrderReturn ==
    /\ od.pc = "match"
    /\ od.pos > Len(od_page_ayat)
    /\ od' = [od EXCEPT !.pc = "returned"]
    /\ UNCHANGED <<odRows, scoreVars, pipeVars, mergeVars, aiVars, loadVars,
                   normVars, lineVars, stageVars>>

OrderNext == OrderMatchAya \/ OrderReturn

SpecOrder == OrderInit /\ [][OrderNext]_vars

(***************************************************************************)
(* Claims about the order of evaluation (specification SpecOrder)          *)
(***************************************************************************)
\* verse v comes before verse w in the book
VerseBefore(v, w) == v[1] < w[1] \/ (v[1] = w[1] /\ v[2] < w[2])

\* C23: on every page the matcher evaluates the verses of the page in
\* ascending verse-number order, and so consumes the candidates in that
\* order, whatever the order of the rows in the corpus file.
C23_VersesEvaluatedAscending ==
    \A i, j \in 1..Len(od.evaluated) :
        i < j => VerseBefore(od.evaluated[i], od.evaluated[j])

\* what the code does: the verses are evaluated in the order of the file
C23_VersesEvaluatedInFileOrder ==
    \A i \in 1..Len(od.evaluated) :
        od.evaluated[i] = <<od_page_ayat[i].sura_no, od_page_ayat[i].aya_no>>

(***************************************************************************)
(* AyatExtractor._process_svg_texts and _merge_line_texts                  *)
(***************************************************************************)
\* the most fragments of one SVG page
MaxLineFrags == 3

\* self.config.get('line_threshold', 10)
line_threshold == 10

\* _extract_svg_coordinates: width = 100, height = 20
svg_width == 100

svg_height == 20

\* the ExtractedText that extract_from_svg builds for a use element placed
\* at (x, y): bbox = [x, y - height, x + width, y]
SvgFragment(text, x, y) ==
    [text |-> text, bbox |-> <<x, y - svg_height, x + svg_width, y>>,
     source |-> "svg", confidence |-> 100, merged_from |-> 0,
     original_texts |-> <<>>]

SvgFragments ==
    {SvgFragment(t, x, y) : t \in {<<"ba">>, <<"meem">>}, x \in {0, 60},
                            y \in {100, 108, 112, 125}}

SvgFragmentLists == UNION {[1..n -> SvgFragments] : n \in 0..MaxLineFrags}

\* twice (text.bbox[1] + text.bbox[3]) / 2
y_center(text) == text.bbox[2] + text.bbox[4]

\* the key (-t.bbox[1], t.bbox[0]) of f is at most that of e
position_key_le(f, e) ==
    \/ f.bbox[2] > e.bbox[2]
    \/ f.bbox[2] = e.bbox[2] /\ f.bbox[1] <= e.bbox[1]

\* the key -t.bbox[0] of f is at most that of e
right_to_left_key_le(f, e) == f.bbox[1] >= e.bbox[1]

\* texts.sort(key=lambda t: (-t.bbox[1], t.bbox[0])): list.sort is stable
RECURSIVE sort_by_position(_)
sort_by_position(texts) ==
    IF texts = <<>> THEN <<>>
    ELSE LET rest == sort_by_position(SubSeq(texts, 1, Len(texts) - 1))
             e    == texts[Len(texts)]
             k    == Cardinality({i \in 1..Len(rest) : position_key_le(rest[i], e)})
         IN  SubSeq(rest, 1, k) \o <<e>> \o SubSeq(rest, k + 1, Len(rest))

\* the sort of a line left out: the fragments stay in the order of the walk
sort_right_to_left_skipped(line_texts) == line_texts

\* line_texts.sort(key=lambda t: -t.bbox[0])
RECURSIVE sort_right_to_left(_)
sort_right_to_left(line_texts) ==
    IF line_texts = <<>> THEN <<>>
    ELSE LET rest == sort_right_to_left(SubSeq(line_texts, 1, Len(line_texts) - 1))
             e    == line_texts[Len(line_texts)]
             k    == Cardinality({i \in 1..Len(rest) : right_to_left_key_le(rest[i], e)})
         IN  SubSeq(rest, 1, k) \o <<e>> \o SubSeq(rest, k + 1, Len(rest))

\* ''.join(texts)
RECURSIVE join(_)
join(texts) == IF texts = <<>> THEN <<>> ELSE Head(texts) \o join(Tail(texts))

MinOf(S) == CHOOSE m \in S : \A n \in S : m <= n

MaxOf(S) == CHOOSE m \in S : \A n \in S : m >= n

\* _merge_line_texts(line_texts), for a non-empty list
merge_line_texts(line_texts) ==
    LET sorted == sort_right_to_left(line_texts)
        ix     == 1..Len(sorted)
    IN  [text           |-> join([i \in ix |-> sorted[i].text]),
         bbox           |-> <<MinOf({sorted[i].bbox[1] : i \in ix}),
                              MinOf({sorted[i].bbox[2] : i \in ix}),
                              MaxOf({sorted[i].bbox[3] : i \in ix}),
                              MaxOf({sorted[i].bbox[4] : i \in ix})>>,
         source         |-> "svg",
         confidence     |-> MinOf({sorted[i].confidence : i \in ix}),
         merged_from    |-> Len(sorted),
         original_texts |-> [i \in ix |-> sorted[i].text]]

\* the test of the walk with the centre of the fragment before as reference
same_line_as_previous(text, current_line, current_y) ==
    LET d == y_center(text) - y_center(current_line[Len(current_line)])
    IN  (IF d >= 0 THEN d ELSE 0 - d) <= 2 * line_threshold

\* abs(y_center - current_y) <= line_threshold
same_line(text, current_line, current_y) ==
    LET d == y_center(text) - current_y
    IN  (IF d >= 0 THEN d ELSE 0 - d) <= 2 * line_threshold

\* current_y is None
NoY == -1

LineInit ==
    /\ lnTexts \in SvgFragmentLists
    /\ ln = [pc |-> "call", texts |-> <<>>, i |-> 0, lines |-> <<>>,
             current_line |-> <<>>, current_y |-> NoY, merged |-> <<>>]
    /\ ScoreIdle
    /\ PipeIdle
    /\ MergeIdle
    /\ AiIdle
    /\ LoadIdle
    /\ NormIdle
    /\ OrderIdle
    /\ StageIdle

\* if not texts: return []; texts.sort(...)
SortTexts ==
    /\ ln.pc = "call"
    /\ IF lnTexts = <<>>
       THEN ln' = [ln EXCEPT !.pc = "returned"]
       ELSE ln' = [ln EXCEPT !.pc = "walk", !.i = 1, !.texts = sort_by_position(lnTexts)]
    /\ UNCHANGED <<lnTexts, scoreVars, pipeVars, mergeVars, aiVars, loadVars,
                   normVars, orderVars, stageVars>>

\* one turn of for text in texts; merged records the lists handed to
\* _merge_line_texts
WalkText ==
    /\ ln.pc = "walk"
    /\ ln.i <= Len(ln.texts)
    /\ LET text == ln.texts[ln.i]
           next == [ln EXCEPT !.i = @ + 1]
       IN  IF ln.current_y = NoY
           THEN ln' = [next EXCEPT !.current_y = y_center(text),
                                   !.current_line = <<text>>]
           ELSE IF same_line(text, ln.current_line, ln.current_y)
           THEN ln' = [next EXCEPT !.current_line = Append(@, text)]
           ELSE ln' = [next EXCEPT
                          !.lines = IF ln.current_line # <<>>
                                    THEN Append(@, merge_line_texts(ln.current_line))
                                    ELSE @,
                          !.merged = IF ln.current_line # <<>>
                                     THEN Append(@, ln.current_line) ELSE @,
                          !.current_line = <<text>>,
                          !.current_y = y_center(text)]
    /\ UNCHANGED <<lnTexts, scoreVars, pipeVars, mergeVars, aiVars, loadVars,
                   normVars, orderVars, stageVars>>

\* the last line is appended and lines is returned
ReturnLines ==
    /\ ln.pc = "walk"
    /\ ln.i > Len(ln.texts)
    /\ ln' = [ln EXCEPT
                 !.pc = "returned",
                 !.lines = IF ln.current_line # <<>>
                           THEN Append(@, merge_line_texts(ln.current_line)) ELSE @,
                 !.merged = IF ln.current_line # <<>>
                            THEN Append(@, ln.current_line) ELSE @]
    /\ UNCHANGED <<lnTexts, scoreVars, pipeVars, mergeVars, aiVars, loadVars,
                   normVars, orderVars, stageVars>>

LineNext == SortTexts \/ WalkText \/ ReturnLines

SpecLines == LineInit /\ [][LineNext]_vars

(***************************************************************************)
(* Claims about line reconstruction (specification SpecLines)              *)
(***************************************************************************)
\* how often r stands in the sequence q
Occurrences(q, r) == Cardinality({i \in 1..Len(q) : q[i] = r})

\* the same fragments, each as often, in any order
SameFragments(q1, q2) ==
    /\ Len(q1) = Len(q2)
    /\ \A i \in 1..Len(q1) : Occurrences(q1, q1[i]) = Occurrences(q2, q1[i])

\* f comes no later than e by descending vertical centre, then by
\* horizontal position
ReferenceOrderLe(f, e) ==
    \/ y_center(f) > y_center(e)
    \/ y_center(f) = y_center(e) /\ f.bbox[1] <= e.bbox[1]

\* the input in the order of the reference algorithm
ReferenceSorted ==
    LET n == Len(lnTexts)
        f == CHOOSE g \in [1..n -> 1..n] :
                /\ \A i, j \in 1..n : i # j => g[i] # g[j]
                /\ \A i, j \in 1..n :
                      i < j => ReferenceOrderLe(lnTexts[g[i]], lnTexts[g[j]])
    IN  [i \in 1..n |-> lnTexts[f[i]]]

\* for every place of the reference order, the place of the fragment that
\* opened its line: a fragment opens a line exactly when its centre differs
\* by more than the threshold from the centre of the opener of the line
\* before it
ReferenceOpener ==
    LET S == ReferenceSorted
        opener[k \in 1..Len(S)] ==
            IF k = 1 THEN 1
            ELSE LET d == y_center(S[k]) - y_center(S[opener[k - 1]])
                 IN  IF (IF d >= 0 THEN d ELSE 0 - d) <= 2 * line_threshold
                     THEN opener[k - 1] ELSE k
    IN  opener

\* the places that open a line, and the fragments of the line opened at o
ReferenceOpeners == {ReferenceOpener[k] : k \in 1..Len(lnTexts)}

ReferenceLine(o) ==
    SelectSeq([k \in 1..Len(lnTexts) |-> <<k, ReferenceSorted[k]>>],
              LAMBDA e : ReferenceOpener[e[1]] = o)

LinesReturned == ln # <<>> /\ ln.pc = "returned"

\* C25: the lines returned are the partition of the reference algorithm:
\* the fragments sorted by descending vertical centre, then by horizontal
\* position, walked in that order, a new line starting exactly when a
\* fragment's centre differs by more than the threshold from the centre of
\* the fragment that opened the current line.
C25_SamePartitionAsReference ==
    LinesReturned =>
       /\ Len(ln.merged) = Cardinality(ReferenceOpeners)
       /\ Len(ln.lines) = Len(ln.merged)
       /\ \A j \in 1..Len(ln.merged) :
             \E o \in ReferenceOpeners :
                /\ Cardinality({q \in ReferenceOpeners : q <= o}) = j
                /\ SameFragments(ln.merged[j],
                                 [i \in 1..Len(ReferenceLine(o)) |-> ReferenceLine(o)[i][2]])

\* three fragments given out of order, the second within the threshold of
\* the first, the third within the threshold of the second and not of the
\* first: two lines
C25_Witness ==
    /\ LinesReturned
    /\ Len(lnTexts) = 3
    /\ lnTexts # ln.texts
    /\ Len(ln.lines) = 2
    /\ ln.lines[1].merged_from = 2
    /\ y_center(ln.texts[2]) - y_center(ln.texts[3]) <= 2 * line_threshold
    /\ y_center(ln.texts[2]) # y_center(ln.texts[3])

\* the fragments of all the lists of q, in one sequence
RECURSIVE Flatten(_)
Flatten(q) == IF q = <<>> THEN <<>> ELSE Head(q) \o Flatten(Tail(q))

RECURSIVE SumMergedFrom(_)
SumMergedFrom(lines) ==
    IF lines = <<>> THEN 0 ELSE Head(lines).merged_from + SumMergedFrom(Tail(lines))

\* r holds the fragments of q from right to left: by descending x
RightToLeftOf(r, q) ==
    /\ SameFragments(r, q)
    /\ \A i, j \in 1..Len(r) : i < j => r[i].bbox[1] >= r[j].bbox[1]

\* the smallest box around the boxes of the fragments of q
UnionBox(q) ==
    <<MinOf({q[i].bbox[1] : i \in 1..Len(q)}), MinOf({q[i].bbox[2] : i \in 1..Len(q)}),
      MaxOf({q[i].bbox[3] : i \in 1..Len(q)}), MaxOf({q[i].bbox[4] : i \in 1..Len(q)})>>

\* line is the merge of the fragments of q
LineOf(line, q) ==
    /\ \E r \in [1..Len(q) -> {q[i] : i \in 1..Len(q)}] :
          /\ RightToLeftOf(r, q)
          /\ line.text = join([i \in 1..Len(r) |-> r[i].text])
          /\ line.original_texts = [i \in 1..Len(r) |-> r[i].text]
    /\ line.bbox = UnionBox(q)
    /\ line.merged_from = Len(q)
    /\ Len(q) = 1 => line.bbox = q[1].bbox

\* C26: line reconstruction conserves its input: every input fragment is
\* absorbed into exactly one line; the text of a line is the concatenation
\* of the texts of its fragments from right to left (descending x), its
\* bbox is the union of their boxes, its fragment count and its list of
\* original texts are those of the fragments absorbed, so the counts sum to
\* the number of input fragments, and a line of one fragment keeps the
\* fragment's own bbox.
C26_LinesConserveFragments ==
    LinesReturned =>
       /\ SameFragments(Flatten(ln.merged), lnTexts)
       /\ Len(ln.lines) = Len(ln.merged)
       /\ \A j \in 1..Len(ln.lines) :
             /\ ln.merged[j] # <<>>
             /\ LineOf(ln.lines[j], ln.merged[j])
       /\ SumMergedFrom(ln.lines) = Len(lnTexts)

\* a line of two fragments that the walk met from left to right, and a line
\* of a single fragment
C26_Witness ==
    /\ LinesReturned
    /\ Len(ln.lines) = 2
    /\ \E j \in 1..2 :
          /\ Len(ln.merged[j]) = 2
          /\ ln.merged[j][1].bbox[1] < ln.merged[j][2].bbox[1]
          /\ ln.merged[j][1].text # ln.merged[j][2].text
          /\ ln.lines[j].bbox # ln.merged[j][1].bbox
    /\ \E j \in 1..2 : ln.lines[j].merged_from = 1

(***************************************************************************)
(* process_page stage by stage: the SVG stage (collection, line            *)
(* reconstruction inside extract_from_svg, reconciliation with the AI      *)
(* regions), the PDF stage, the direct AI stage and the matcher            *)
(*                                                                         *)
(* st.pc: "svg" before the SVG stage, "reconstruct" at the call of         *)
(* _process_svg_texts, "reconcile" after extract_from_svg returned inside  *)
(* extract_from_svg_with_ai, "pdf" before the PDF stage, "direct" before   *)
(* the direct AI stage, "check" before the test of an empty list, "done".  *)
(* st.stages lists the stages that ran, in order.                          *)
(***************************************************************************)
\* _process_svg_texts: the walk from the i-th sorted text on
RECURSIVE walk_texts(_, _, _, _, _)
walk_texts(texts, i, lines, current_line, current_y) ==
    IF i > Len(texts)
    THEN IF current_line # <<>> THEN Append(lines, merge_line_texts(current_line))
         ELSE lines
    ELSE LET text == texts[i]
         IN  IF current_y = NoY
             THEN walk_texts(texts, i + 1, lines, <<text>>, y_center(text))
             ELSE IF same_line(text, current_line, current_y)
             THEN walk_texts(texts, i + 1, lines, Append(current_line, text), current_y)
             ELSE walk_texts(texts, i + 1,
                             IF current_line # <<>>
                             THEN Append(lines, merge_line_texts(current_line))
                             ELSE lines,
                             <<text>>, y_center(text))

\* _process_svg_texts(texts)
process_svg_texts(texts) ==
    IF texts = <<>> THEN <<>>
    ELSE walk_texts(sort_by_position(texts), 1, <<>>, <<>>, NoY)

\* _determine_extraction_method(extracted)
determine_extraction_method(extracted) ==
    IF extracted.source = "svg"
    THEN IF extracted.merged_from > 1 THEN "svg_merged" ELSE "svg_direct"
    ELSE "pdf_text"

\* the PDF stage whenever a PDF is configured, however many texts there are
needs_pdf_always(extracted_texts, pdf_path) == pdf_path

\* process_page: len(extracted_texts) < 5 and self.config.get('pdf_path')
needs_pdf(extracted_texts, pdf_path) ==
    Len(extracted_texts) < pdf_fallback_below /\ pdf_path

\* process_page: self.ai_analyzer and len(extracted_texts) < 3
needs_direct(extracted_texts, analyzer) ==
    analyzer /\ Len(extracted_texts) < ai_direct_below

\* the fragments the SVG file of the page can hold: none; one; two of one
\* line; three, four and five lines
StageFragmentLists ==
    {<<>>,
     <<SvgFragment(<<"ba">>, 0, 100)>>,
     <<SvgFragment(<<"meem">>, 0, 100), SvgFragment(<<"ba">>, 60, 100)>>,
     [i \in 1..3 |-> SvgFragment(<<"ba">>, 0, 75 + 25 * i)],
     [i \in 1..4 |-> SvgFragment(<<"ba">>, 0, 75 + 25 * i)],
     [i \in 1..5 |-> SvgFragment(<<"ba">>, 0, 75 + 25 * i)]}

\* the regions of an analysis that returns some: a verse region over the
\* fragment placed at (0, 100) and a verse region away from every fragment
StageRegions ==
    <<TextRegion(<<0, 80, 100, 100>>, <<"meem">>, 80, "ayah"),
      TextRegion(<<500, 500, 600, 520>>, <<"ba", "meem">>, 80, "ayah")>>

\* what a call of analyze_page comes to: an exception, or a PageAnalysis
\* without or with regions
Analyses == {"raises", "empty", "regions"}

text_regions_of(analysis) == IF analysis = "regions" THEN StageRegions ELSE <<>>

\* the lines of the PDF page: one, over the SVG fragment placed at (0, 100)
StagePdfLines ==
    <<[text |-> <<"ba", "fatha">>, bbox |-> <<0, 80, 100, 100>>, source |-> "pdf",
       confidence |-> 100]>>

StageInit ==
    /\ stEnv \in [prefer_svg : BOOLEAN, svg_folder : BOOLEAN,
                  svg : {"missing", "unparsable", "parsed"},
                  fragments : StageFragmentLists, analyzer : BOOLEAN,
                  svg_analysis : Analyses, direct_analysis : Analyses,
                  pdf_path : BOOLEAN]
    /\ stEnv.svg # "parsed" => stEnv.fragments = <<>>
    /\ ~stEnv.analyzer => stEnv.svg_analysis = "raises" /\ stEnv.direct_analysis = "raises"
    /\ st = [pc |-> "svg", texts |-> <<>>, traditional_texts |-> <<>>,
             svg_texts |-> <<>>, pdf_texts |-> <<>>, reconciled |-> <<>>,
             extracted_texts |-> <<>>, stages |-> <<>>, matched |-> FALSE]
    /\ ScoreIdle
    /\ PipeIdle
    /\ MergeIdle
    /\ AiIdle
    /\ LoadIdle
    /\ NormIdle
    /\ OrderIdle
    /\ LineIdle

\* process_page: the test of the SVG stage; extract_from_svg: the loop over
\* the elements of the file (a file that does not parse yields no text)
StageCollect ==
    /\ st.pc = "svg"
    /\ st' = IF stEnv.prefer_svg /\ stEnv.svg_folder /\ stEnv.svg # "missing"
             THEN IF stEnv.svg = "parsed"
                  THEN [st EXCEPT !.pc = "reconstruct", !.texts = stEnv.fragments,
                                  !.stages = Append(@, "collect")]
                  ELSE [st EXCEPT !.pc = IF stEnv.analyzer THEN "reconcile" ELSE "pdf",
                                  !.stages = Append(@, "collect")]
             ELSE [st EXCEPT !.pc = "pdf"]
    /\ UNCHANGED <<stEnv, scoreVars, pipeVars, mergeVars, aiVars, loadVars,
                   normVars, orderVars, lineVars>>

\* extract_from_svg: processed_texts = self._process_svg_texts(texts)
StageReconstruct ==
    /\ st.pc = "reconstruct"
    /\ LET processed_texts == process_svg_texts(st.texts)
       IN  st' = [st EXCEPT !.pc = IF stEnv.analyzer THEN "reconcile" ELSE "pdf",
                            !.traditional_texts = processed_texts,
                            !.svg_texts = processed_texts,
                            !.extracted_texts = processed_texts,
                            !.stages = Append(@, "reconstruct")]
    /\ UNCHANGED <<stEnv, scoreVars, pipeVars, mergeVars, aiVars, loadVars,
                   normVars, orderVars, lineVars>>

\* extract_from_svg_with_ai: analyze_page, then _merge_ai_results on the
\* texts extract_from_svg returned; the traditional texts when it raises
StageReconcile ==
    /\ st.pc = "reconcile"
    /\ st' = IF stEnv.svg_analysis = "raises"
             THEN [st EXCEPT !.pc = "pdf"]
             ELSE LET enhanced_texts ==
                          merge_ai_results(st.traditional_texts,
                                           text_regions_of(stEnv.svg_analysis))
                  IN  [st EXCEPT !.pc = "pdf",
                                 !.reconciled = st.traditional_texts,
                                 !.svg_texts = enhanced_texts,
                                 !.extracted_texts = enhanced_texts,
                                 !.stages = Append(@, "reconcile")]
    /\ UNCHANGED <<stEnv, scoreVars, pipeVars, mergeVars, aiVars, loadVars,
                   normVars, orderVars, lineVars>>

\* process_page: the PDF stage
StagePdf ==
    /\ st.pc = "pdf"
    /\ st' = IF needs_pdf(st.extracted_texts, stEnv.pdf_path)
             THEN [st EXCEPT !.pc = "direct",
                             !.pdf_texts = StagePdfLines,
                             !.extracted_texts = @ \o StagePdfLines,
                             !.stages = Append(@, "pdf")]
             ELSE [st EXCEPT !.pc = "direct"]
    /\ UNCHANGED <<stEnv, scoreVars, pipeVars, mergeVars, aiVars, loadVars,
                   normVars, orderVars, lineVars>>

\* process_page: the direct AI stage, on the SVG file of the page
StageDirect ==
    /\ st.pc = "direct"
    /\ st' = IF /\ needs_direct(st.extracted_texts, stEnv.analyzer)
                /\ stEnv.svg_folder
                /\ stEnv.svg # "missing"
             THEN [st EXCEPT !.pc = "check",
                             !.extracted_texts =
                                 IF stEnv.direct_analysis = "raises" THEN @
                                 ELSE @ \o ai_direct_texts(
                                               text_regions_of(stEnv.direct_analysis), 1),
                             !.stages = Append(@, "direct")]
             ELSE [st EXCEPT !.pc = "check"]
    /\ UNCHANGED <<stEnv, scoreVars, pipeVars, mergeVars, aiVars, loadVars,
                   normVars, orderVars, lineVars>>

\* process_page: if not extracted_texts: return []; else the matcher is
\* called on extracted_texts (what it returns is StageMatches)
StageCheckAndMatch ==
    /\ st.pc = "check"
    /\ st' = IF st.extracted_texts = <<>>
             THEN [st EXCEPT !.pc = "done"]
             ELSE [st EXCEPT !.pc = "done", !.matched = TRUE,
                             !.stages = Append(@, "match")]
    /\ UNCHANGED <<stEnv, scoreVars, pipeVars, mergeVars, aiVars, loadVars,
                   normVars, orderVars, lineVars>>

\* match_ayat_with_texts: the MatchedAyah records, with extraction_method
StageMatches ==
    IF st # <<>> /\ st.matched
    THEN LET ms == match_ayat_with_texts(st.extracted_texts, AiPage)
         IN  [i \in 1..Len(ms) |->
                 [aya_no            |-> ms[i].aya_no,
                  text_extracted    |-> ms[i].text_extracted,
                  source            |-> ms[i].source,
                  text_idx          |-> ms[i].text_idx,
                  extraction_method |->
                      determine_extraction_method(st.extracted_texts[ms[i].text_idx])]]
    ELSE <<>>

StageNext ==
    \/ StageCollect
    \/ StageReconstruct
    \/ StageReconcile
    \/ StagePdf
    \/ StageDirect
    \/ StageCheckAndMatch

SpecStages == StageInit /\ [][StageNext]_vars

(***************************************************************************)
(* Claims about the stages of process_page (specification SpecStages)      *)
(***************************************************************************)
Ran(stage) == \E i \in 1..Len(st.stages) : st.stages[i] = stage

\* stage a never runs after stage b
NeverAfter(a, b) ==
    \A i, j \in 1..Len(st.stages) : (st.stages[i] = b /\ st.stages[j] = a) => j < i

\* the text came out of _process_svg_texts, or was built by the reconciler
\* from one that did
PassedReconstruction(text) == text.source \in {"svg", "svg_ai_enhanced"}

\* the analysis of the SVG stage returned regions
RegionsPresent == text_regions_of(stEnv.svg_analysis) # <<>>

\* C24: per page the stages run in the order collect, reconcile (when
\* there are external regions), reconstruct lines, match: the reconciler
\* works on the raw fragments of the collector, and every fragment handed
\* to the matcher, those the reconciler added and those of the second
\* backend included, has passed through line reconstruction.
C24_ReconcileThenReconstructThenMatch ==
    /\ NeverAfter("collect", "reconcile")
    /\ NeverAfter("reconstruct", "match")
    /\ (st.texts # <<>> /\ RegionsPresent) =>
          /\ NeverAfter("reconcile", "reconstruct")
          /\ Ran("reconcile") => st.reconciled = st.texts
    /\ st.matched =>
          \A i \in 1..Len(st.extracted_texts) :
              PassedReconstruction(st.extracted_texts[i])

\* what the code does: lines are reconstructed inside the SVG collector,
\* before the reconciler, which works on the reconstructed lines; the PDF
\* stage and the direct AI stage follow and their texts go to the matcher
\* as they are
C24_ReconstructThenReconcile ==
    /\ NeverAfter("collect", "reconstruct")
    /\ NeverAfter("reconstruct", "reconcile")
    /\ NeverAfter("reconcile", "pdf")
    /\ NeverAfter("pdf", "direct")
    /\ NeverAfter("direct", "match")
    /\ Ran("reconcile") => st.reconciled = process_svg_texts(st.texts)
    /\ st.matched =>
          \A i \in 1..Len(st.extracted_texts) :
              PassedReconstruction(st.extracted_texts[i])
                 <=> i <= Len(st.traditional_texts)

\* C29: the PDF backend is invoked for a page exactly when a PDF path is
\* configured and the SVG stage left fewer than 5 texts; it runs after the
\* SVG stage, and its texts are appended after the SVG texts, none of which
\* is removed or reconciled with an overlapping one; the direct AI stage
\* runs only after that and only when fewer than 3 texts exist.
C29_PdfFallbackThenDirect ==
    st.pc = "done" =>
       /\ Ran("pdf") <=> (stEnv.pdf_path /\ Len(st.svg_texts) < pdf_fallback_below)
       /\ NeverAfter("collect", "pdf")
       /\ NeverAfter("reconstruct", "pdf")
       /\ NeverAfter("reconcile", "pdf")
       /\ NeverAfter("pdf", "direct")
       /\ LET after_pdf == IF Ran("pdf") THEN st.svg_texts \o StagePdfLines
                           ELSE st.svg_texts
          IN  /\ Len(st.extracted_texts) >= Len(after_pdf)
              /\ SubSeq(st.extracted_texts, 1, Len(after_pdf)) = after_pdf
              /\ Ran("direct") => Len(after_pdf) < ai_direct_below
              /\ ~Ran("direct") => st.extracted_texts = after_pdf

\* a page done whose SVG line was followed by the PDF line that overlaps
\* it, both kept, and then by the texts of the direct AI stage
C29_Witness ==
    /\ st.pc = "done"
    /\ Len(st.svg_texts) = 1
    /\ Ran("pdf")
    /\ Ran("direct")
    /\ Len(st.extracted_texts) > 2
    /\ st.extracted_texts[1].source = "svg"
    /\ st.extracted_texts[2].source = "pdf"
    /\ calculate_bbox_overlap(st.extracted_texts[1].bbox, st.extracted_texts[2].bbox).n > 0
    /\ st.extracted_texts[3].source = "ai_direct"

\* C30: the extraction_method of every MatchedAyah names the backend of its
\* fragment: it is 'pdf_text' only when the fragment's source is the PDF
\* backend; fragments of the SVG backend, AI-enhanced ones included, and of
\* AI-only regions are never labelled 'pdf_text'.
C30_PdfTextOnlyForPdfSource ==
    \A i \in 1..Len(StageMatches) :
        StageMatches[i].extraction_method = "pdf_text" => StageMatches[i].source = "pdf"

\* what the code does: every source other than 'svg' is labelled 'pdf_text'
C30_PdfTextForEveryOtherSource ==
    \A i \in 1..Len(StageMatches) :
        StageMatches[i].extraction_method = "pdf_text" <=> StageMatches[i].source # "svg"

=============================================================================
